---- MODULE Spec2Model ----
(***************************************************************************)
(* A model of metalsmith-bundled-components: component discovery tables,   *)
(* the breadth-first dependency resolver, the requirement validator, the   *)
(* section validator and the plugin run that ties them together.           *)
(***************************************************************************)
EXTENDS Integers, Sequences, FiniteSets, TLC

VARIABLES
  usedComponents,   \* resolver input: the used Set, as its insertion order
  componentMap,     \* the lookup table: a Map, as its entries in insertion order
  resolved,         \* resolveAllDependencies: the Set being built
  queue,            \* resolveAllDependencies: the work queue
  pushed,           \* resolveAllDependencies: every name put on the queue, in order
  pc,               \* position of the function call under study ("call", "loop", "done")
  result,           \* what that call returned (or the error it raised)
  allBaseComponents,     \* collectComponents( basePath ), in directory order
  allSectionComponents,  \* collectComponents( sectionsPath ), in directory order
  sectionsArg,      \* validateSections: its first argument
  getManifestArg,   \* validateSections: the manifest accessor
  fileNameArg,      \* validateSections: the file name for the context
  options,          \* plugin: normalized options (validation.enabled, validation.strict)
  files,            \* plugin: the Metalsmith files object, in key order
  layouts,          \* plugin: the .njk templates under the layouts directory
  validatedFiles,   \* plugin: the files whose sections went to validateSections
  ppc,              \* plugin: position of the run
  bundlerCalls,     \* plugin: arguments of every bundleWithESBuild call
  runError,         \* plugin: the error processComponents rejected with, if any
  doneCalls,        \* plugin: arguments of every call of done
  callArgs          \* a utility function called on its own: its arguments

resolverVars == <<usedComponents, resolved, queue, pushed>>
discoveryVars == <<allBaseComponents, allSectionComponents>>
sectionVars == <<sectionsArg, getManifestArg, fileNameArg>>
pluginVars == <<options, files, layouts, validatedFiles, ppc, bundlerCalls,
                runError, doneCalls>>

vars == <<usedComponents, componentMap, resolved, queue, pushed, pc, result,
          allBaseComponents, allSectionComponents, sectionsArg, getManifestArg,
          fileNameArg, options, files, layouts, validatedFiles, ppc, bundlerCalls,
          runError, doneCalls, callArgs>>

(***************************************************************************)
(* Bounds and alphabets                                                    *)
(***************************************************************************)

\* Total number of requirement entries in one lookup table.
MaxEdges == 3

\* Number of components the two component directories hold together.
MaxComponents == 3

\* Length of a sections array handed to validateSections.
MaxSections == 2

\* Components and files of one plugin run, taken together.
MaxItems == 3

\* Length of an array held by a property.
MaxArrayLen == 2

\* Length of a `required` list.
MaxRequired == 2

\* Number of segments of a template path.
MaxSegments == 3

\* Number of entries of a component root directory.
MaxEntries == 3

\* Number of entries of a directory of the layouts tree.
MaxLayoutEntries == 2

\* Component names.  Three names give chains, cycles, self-requirements,
\* shared requirements and (with a name left out of the table) dangling ones.
Names == {"hero", "button", "icon"}

NameOrder == <<"hero", "button", "icon">>

(***************************************************************************)
(* Generic helpers                                                         *)
(***************************************************************************)

\* An optional field: None when the key is not set, Some(x) when it is.
None == <<>>
Some(x) == <<x>>
IsSome(o) == Len(o) = 1

Range(s) == {s[i] : i \in 1..Len(s)}

\* The member of a one-element set; {e(x) : x \in {v}} names the value v once.
Only(S) == CHOOSE x \in S : TRUE

NoDuplicates(s) == \A i, j \in 1..Len(s) : s[i] = s[j] => i = j

\* All sequences over S of length exactly n / at most n.
SeqsOfLen(S, n) == [1..n -> S]
SeqsUpTo(S, n) == UNION {SeqsOfLen(S, k) : k \in 0..n}

\* Every sequence that lists the members of the set S once each.
Orderings(S) == {s \in SeqsOfLen(S, Cardinality(S)) : NoDuplicates(s)}

(***************************************************************************)
(* Values of the variables a specification does not use                    *)
(***************************************************************************)

ResolverIdle ==
  usedComponents = <<>> /\ resolved = {} /\ queue = <<>> /\ pushed = <<>>

DiscoveryIdle == allBaseComponents = <<>> /\ allSectionComponents = <<>>

CallIdle == callArgs = <<>>

SectionsIdle == sectionsArg = <<>> /\ getManifestArg = <<>> /\ fileNameArg = ""

PluginIdle ==
  /\ options = <<>> /\ files = <<>> /\ layouts = <<>> /\ validatedFiles = <<>>
  /\ ppc = "idle"
  /\ bundlerCalls = <<>> /\ runError = <<>> /\ doneCalls = <<>>

(***************************************************************************)
(* Components and the lookup table                                         *)
(***************************************************************************)

\* A component as loadComponent returns it for a manifest that declares
\* `requires`: the manifest's fields, with `dependencies` defaulted to [].
ComponentWith(name, reqs, validation) ==
  [name |-> name, requires |-> Some(reqs), dependencies |-> Some(<<>>),
   validation |-> validation]

\* ... and one whose manifest has no `validation`
Component(name, reqs) == ComponentWith(name, reqs, None)

\* Map.has / Map.get on a table whose entries are keyed by component name.
MapHas(T, n) == \E i \in 1..Len(T) : T[i].name = n
MapGet(T, n) == T[CHOOSE i \in 1..Len(T) : T[i].name = n]
MapKeys(T) == {T[i].name : i \in 1..Len(T)}

\* component.requires || component.dependencies || []
\* (an array, even an empty one, is truthy; an unset field is not)
RequirementsNonEmptyFirst(component) ==
  IF IsSome(component.requires) /\ component.requires[1] # <<>>
  THEN component.requires[1]
  ELSE IF IsSome(component.dependencies) THEN component.dependencies[1]
  ELSE <<>>
Requirements(component) ==
  IF IsSome(component.requires) THEN component.requires[1]
  ELSE IF IsSome(component.dependencies) THEN component.dependencies[1]
  ELSE <<>>

\* Lookup tables over NameOrder[i..], entries in NameOrder order, holding at
\* most `budget` requirement entries in total.
RECURSIVE TablesFrom(_, _)
TablesFrom(i, budget) ==
  IF i > Len(NameOrder) THEN {<<>>}
  ELSE TablesFrom(i + 1, budget) \cup
       UNION { { <<Component(NameOrder[i], reqs)>> \o t :
                   t \in TablesFrom(i + 1, budget - Len(reqs)) } :
               reqs \in SeqsUpTo(Names, budget) }

Tables == TablesFrom(1, MaxEdges)

\* Used sets, as the insertion orders a Set can have.
UsedSets == UNION {Orderings(U) : U \in SUBSET Names}

(***************************************************************************)
(* resolveAllDependencies                                                  *)
(***************************************************************************)

\* if ( !resolved.has( requiredName ) )
NotYetResolvedAlways(res, requiredName) == TRUE
NotYetResolved(res, requiredName) == requiredName \notin res

\* requirements.forEach( requiredName => { if ... add, push } )
RECURSIVE AddRequirementsUntilKnown(_, _, _)
AddRequirementsUntilKnown(requirements, res, q) ==
  IF requirements = <<>> \/ Head(requirements) \in res
  THEN [resolved |-> res, queue |-> q]
  ELSE AddRequirementsUntilKnown(Tail(requirements), res \cup {Head(requirements)},
                                 Append(q, Head(requirements)))
AddRequirementsNoPush(requirements, res, q) ==
  [resolved |-> res \cup Range(requirements), queue |-> q]
RECURSIVE AddRequirements(_, _, _)
AddRequirements(requirements, res, q) ==
  IF requirements = <<>> THEN [resolved |-> res, queue |-> q]
  ELSE LET requiredName == Head(requirements) IN
       IF NotYetResolved(res, requiredName)
       THEN AddRequirements(Tail(requirements), res \cup {requiredName},
                            Append(q, requiredName))
       ELSE AddRequirements(Tail(requirements), res, q)

\* if ( !component ) { continue; }
SkipMissingDrops(res, q, currentName) == [resolved |-> res \ {currentName}, queue |-> q]
SkipMissing(res, q, currentName) == [resolved |-> res, queue |-> q]

\* One iteration of the while loop: shift the queue, look the name up, expand.
LoopBody(res, q, T) ==
  LET currentName == Head(q)
      rest == Tail(q)
  IN IF ~MapHas(T, currentName) THEN SkipMissing(res, rest, currentName)
     ELSE AddRequirements(Requirements(MapGet(T, currentName)), res, rest)

\* The whole call, as the loop computes it.
RECURSIVE ResolveLoop(_, _, _)
ResolveLoop(res, q, T) ==
  IF Len(q) > 0
  THEN LET next == LoopBody(res, q, T) IN ResolveLoop(next.resolved, next.queue, T)
  ELSE res

ResolveAllDependenciesUnseeded(used, T) == ResolveLoop({}, used, T)
ResolveAllDependencies(used, T) == ResolveLoop(Range(used), used, T)

\* --- the call, one loop iteration per step ---

InitResolve ==
  /\ usedComponents \in UsedSets
  /\ componentMap \in Tables
  /\ resolved = {}
  /\ queue = <<>>
  /\ pushed = <<>>
  /\ pc = "call"
  /\ result = {}
  /\ DiscoveryIdle /\ SectionsIdle /\ PluginIdle /\ CallIdle

\* const resolved = new Set( usedComponents ); const queue = [ ...usedComponents ];
ResolveBegin ==
  /\ pc = "call"
  /\ resolved' = Range(usedComponents)
  /\ queue' = usedComponents
  /\ pushed' = usedComponents
  /\ pc' = "loop"
  /\ UNCHANGED <<usedComponents, componentMap, result, discoveryVars, sectionVars, pluginVars, callArgs>>

\* the loop working on the caller's own collection
ResolveStepOnCallerSet ==
  /\ pc = "loop"
  /\ Len(queue) > 0
  /\ LET next == LoopBody(resolved, queue, componentMap) IN
       /\ resolved' = next.resolved
       /\ queue' = next.queue
       /\ pushed' = pushed \o SubSeq(next.queue, Len(queue), Len(next.queue))
       /\ usedComponents' = next.queue
  /\ UNCHANGED <<componentMap, pc, result, discoveryVars, sectionVars, pluginVars, callArgs>>

ResolveStep ==
  /\ pc = "loop"
  /\ Len(queue) > 0
  /\ LET next == LoopBody(resolved, queue, componentMap) IN
       /\ resolved' = next.resolved
       /\ queue' = next.queue
       /\ pushed' = pushed \o SubSeq(next.queue, Len(queue), Len(next.queue))
  /\ UNCHANGED <<usedComponents, componentMap, pc, result, discoveryVars, sectionVars, pluginVars, callArgs>>

\* return resolved;
ResolveReturn ==
  /\ pc = "loop"
  /\ Len(queue) = 0
  /\ result' = resolved
  /\ pc' = "done"
  /\ UNCHANGED <<usedComponents, componentMap, resolved, queue, pushed, discoveryVars, sectionVars, pluginVars, callArgs>>

NextResolve == ResolveBegin \/ ResolveStep \/ ResolveReturn

SpecResolve == InitResolve /\ [][NextResolve]_vars

\* The loop is a plain synchronous loop: it keeps running until it returns.
FairSpecResolve == SpecResolve /\ WF_vars(NextResolve)

\* --- the call repeated on its own result ---

\* resolveAllDependencies( resolved, componentMap ), where resolved is the Set
\* the first call returned: it iterates in insertion order, which is the
\* order in which names were put on the queue
ResolveAgain ==
  /\ pc = "done"
  /\ result' = [first |-> result,
                second |-> ResolveAllDependencies(pushed, componentMap)]
  /\ pc' = "again"
  /\ UNCHANGED <<usedComponents, componentMap, resolved, queue, pushed,
                 discoveryVars, sectionVars, pluginVars, callArgs>>

NextResolveTwice == NextResolve \/ ResolveAgain

SpecResolveTwice == InitResolve /\ [][NextResolveTwice]_vars

\* --- two calls on inputs that differ in order only ---

\* the sequences that hold the entries of s in another order (or the same)
Reorderings(s) ==
  {[i \in 1..Len(s) |-> s[p[i]]] : p \in Orderings(1..Len(s))}

\* the tables that differ from T in the order inside requirement lists only
RECURSIVE ReorderedTables(_)
ReorderedTables(T) ==
  IF T = <<>> THEN {<<>>}
  ELSE {<<Component(Head(T).name, reqs)>> \o rest :
          reqs \in Reorderings(Requirements(Head(T))),
          rest \in ReorderedTables(Tail(T))}

InitReorder ==
  /\ usedComponents \in UsedSets
  /\ componentMap \in Tables
  /\ pc = "call"
  /\ result = <<>>
  /\ resolved = {} /\ queue = <<>> /\ pushed = <<>>
  /\ DiscoveryIdle /\ SectionsIdle /\ PluginIdle /\ CallIdle

\* one call on the inputs as given, one on a reordering of them
ResolveReordered ==
  /\ pc = "call"
  /\ \E used2 \in Reorderings(usedComponents), T2 \in ReorderedTables(componentMap) :
       /\ callArgs' = [used |-> used2, table |-> T2]
       /\ result' = [first |-> ResolveAllDependencies(usedComponents, componentMap),
                     second |-> ResolveAllDependencies(used2, T2)]
  /\ pc' = "done"
  /\ UNCHANGED <<usedComponents, componentMap, resolved, queue, pushed,
                 discoveryVars, sectionVars, pluginVars>>

NextReorder == ResolveReordered

SpecReorder == InitReorder /\ [][NextReorder]_vars

(***************************************************************************)
(* createComponentMap                                                      *)
(***************************************************************************)

\* What a call that can throw gives back.
Returned(value) == [threw |-> FALSE, value |-> value, error |-> <<>>]
Threw(error) == [threw |-> TRUE, value |-> <<>>, error |-> error]

\* new Error( `Duplicate component name: ${ component.name }` )
DuplicateError(name) == <<"Duplicate component name: ", name>>

\* if ( componentMap.has( component.name ) )
AlreadyInMapAdjacent(map, component) ==
  Len(map) > 0 /\ map[Len(map)].name = component.name
AlreadyInMap(map, component) == MapHas(map, component.name)

\* components.forEach( component => { if has: throw; set } ); return componentMap
RECURSIVE CreateMapLoop(_, _)
CreateMapLoop(components, map) ==
  IF components = <<>> THEN Returned(map)
  ELSE LET component == Head(components) IN
       IF AlreadyInMap(map, component)
       THEN Threw(DuplicateError(component.name))
       ELSE CreateMapLoop(Tail(components), Append(map, component))

CreateComponentMap(components) == CreateMapLoop(components, <<>>)

\* What collectComponents can hand over: any components, in directory order;
\* two directories may well hold the same component name.
DiscoveredComponents == {Component(n, reqs) : n \in Names, reqs \in {<<>>, <<"icon">>}}

Discoveries ==
  UNION { SeqsOfLen(DiscoveredComponents, b) \X SeqsOfLen(DiscoveredComponents, s) :
            b \in 0..MaxComponents, s \in 0..MaxComponents }

InitMap ==
  /\ \E d \in {x \in Discoveries : Len(x[1]) + Len(x[2]) <= MaxComponents} :
       /\ allBaseComponents = d[1]
       /\ allSectionComponents = d[2]
  /\ componentMap = <<>>
  /\ pc = "call"
  /\ result = <<>>
  /\ ResolverIdle /\ SectionsIdle /\ PluginIdle /\ CallIdle

\* const allComponents = [ ...allBaseComponents, ...allSectionComponents ];
\* const componentMap = createComponentMap( allComponents );
CreateComponentMapCall ==
  /\ pc = "call"
  /\ result' = CreateComponentMap(allBaseComponents \o allSectionComponents)
  /\ componentMap' = IF result'.threw THEN componentMap ELSE result'.value
  /\ pc' = "done"
  /\ UNCHANGED <<resolverVars, discoveryVars, sectionVars, pluginVars, callArgs>>

NextMap == CreateComponentMapCall

SpecMap == InitMap /\ [][NextMap]_vars

(***************************************************************************)
(* validateRequirements                                                    *)
(***************************************************************************)

\* `Component "${component.name}" requires "${required}" which was not found`
RequirementError(name, required) ==
  <<"Component ", name, " requires ", required, " which was not found">>

\* requirements.forEach( required => { if ( !componentMap.has( required ) ) push } )
RECURSIVE RequirementErrorsOf(_, _, _)
RequirementErrorsOf(name, requirements, T) ==
  IF requirements = <<>> THEN <<>>
  ELSE LET required == Head(requirements)
           rest == RequirementErrorsOf(name, Tail(requirements), T)
       IN IF ~MapHas(T, required)
          THEN <<RequirementError(name, required)>> \o rest
          ELSE rest

\* the body run for one component of the table
ComponentRequirementErrorsFirstOnly(component, T) ==
  LET all == RequirementErrorsOf(component.name, Requirements(component), T)
  IN IF all = <<>> THEN <<>> ELSE <<Head(all)>>
ComponentRequirementErrors(component, T) ==
  RequirementErrorsOf(component.name, Requirements(component), T)

\* componentMap.forEach( ( component ) => { ... } ); return errors
ValidateRequirementsFirstEntry(i, T) ==
  IF T = <<>> THEN <<>> ELSE ComponentRequirementErrors(T[1], T)
RECURSIVE ValidateRequirementsFrom(_, _)
ValidateRequirementsFrom(i, T) ==
  IF i > Len(T) THEN <<>>
  ELSE ComponentRequirementErrors(T[i], T) \o ValidateRequirementsFrom(i + 1, T)

ValidateRequirements(T) == ValidateRequirementsFrom(1, T)

InitRequirements ==
  /\ componentMap \in Tables
  /\ pc = "call"
  /\ result = <<>>
  /\ ResolverIdle /\ DiscoveryIdle /\ SectionsIdle /\ PluginIdle /\ CallIdle

ValidateRequirementsCall ==
  /\ pc = "call"
  /\ result' = ValidateRequirements(componentMap)
  /\ pc' = "done"
  /\ UNCHANGED <<componentMap, resolverVars, discoveryVars, sectionVars, pluginVars, callArgs>>

NextRequirements == ValidateRequirementsCall

SpecRequirements == InitRequirements /\ [][NextRequirements]_vars

(***************************************************************************)
(* JavaScript values, as far as the validator looks at them                *)
(***************************************************************************)

Undefined == [t |-> "undefined", v |-> ""]
Null == [t |-> "null", v |-> ""]
Bool(b) == [t |-> "boolean", v |-> b]
Str(s) == [t |-> "string", v |-> s]
Num(n) == [t |-> "number", v |-> n]
Arr(items) == [t |-> "array", v |-> items]
\* an object: a function from its own keys to values
Obj(fields) == [t |-> "object", v |-> fields]

\* typeof value
TypeOf(value) ==
  IF value.t \in {"null", "array", "object"} THEN "object" ELSE value.t

\* Array.isArray( value )
IsArray(value) == value.t = "array"

\* value used as a condition
Truthy(value) ==
  CASE value.t \in {"undefined", "null"} -> FALSE
    [] value.t = "boolean" -> value.v
    [] value.t = "string" -> value.v # ""
    [] value.t = "number" -> value.v # 0
    [] OTHER -> TRUE

\* a === b (objects and arrays are equal only to themselves; values parsed
\* from separate documents are never the same object)
StrictEquals(a, b) ==
  /\ a.t = b.t
  /\ a.t \notin {"array", "object"}
  /\ a.v = b.v

\* the keys an array answers to, for the short arrays of the model, and the
\* way a path shows the same indexes: `${propertyPath}[${i}]`
IndexKeys == <<"0", "1", "2">>
IndexSegments == <<"[0]", "[1]", "[2]">>
IsIndexKey(items, key) == \E i \in 1..Len(items) : i <= Len(IndexKeys) /\ IndexKeys[i] = key
IndexOfKey(key) == CHOOSE i \in 1..Len(IndexKeys) : IndexKeys[i] = key

\* key in current   (current is an object or an array)
HasKeyTruthy(current, key) ==
  current.t = "object" /\ key \in DOMAIN current.v /\ Truthy(current.v[key])
HasKey(current, key) ==
  IF current.t = "object" THEN key \in DOMAIN current.v
  ELSE IF current.t = "array" THEN key = "length" \/ IsIndexKey(current.v, key)
  ELSE FALSE

\* current[key]   (current is an object or an array)
GetKey(current, key) ==
  IF current.t = "object"
  THEN IF key \in DOMAIN current.v THEN current.v[key] ELSE Undefined
  ELSE IF current.t = "array"
  THEN IF key = "length" THEN Num(Len(current.v))
       ELSE IF IsIndexKey(current.v, key) THEN current.v[IndexOfKey(key)]
       ELSE Undefined
  ELSE Undefined

\* current && typeof current === 'object'
IsTraversable(current) == Truthy(current) /\ TypeOf(current) = "object"

(***************************************************************************)
(* validation.js: nested properties.  A dot path is held as the list of    *)
(* keys path.split('.') yields.                                            *)
(***************************************************************************)

\* path.split('.').reduce( (current, key) => ..., obj )
RECURSIVE ReducePath(_, _)
ReducePath(current, keys) ==
  IF keys = <<>> THEN current
  ELSE ReducePath(IF IsTraversable(current) THEN GetKey(current, Head(keys)) ELSE Undefined,
                  Tail(keys))

GetNestedProperty(obj, keys) ==
  IF ~IsTraversable(obj) THEN Undefined ELSE ReducePath(obj, keys)

\* for (const key of keys) { if (!current || typeof ... || !(key in current)) return false; ... }
RECURSIVE HasPathFrom(_, _)
HasPathFrom(current, keys) ==
  IF keys = <<>> THEN TRUE
  ELSE IF ~IsTraversable(current) \/ ~HasKey(current, Head(keys)) THEN FALSE
  ELSE HasPathFrom(GetKey(current, Head(keys)), Tail(keys))

HasNestedProperty(obj, keys) ==
  IF ~IsTraversable(obj) THEN FALSE ELSE HasPathFrom(obj, keys)

(***************************************************************************)
(* validation.js: rules and results                                        *)
(***************************************************************************)

\* { valid: true } / { valid: false, error } / an exception on its way up
Valid == [threw |-> FALSE, valid |-> TRUE, error |-> <<>>]
Invalid(error) == [threw |-> FALSE, valid |-> FALSE, error |-> error]
Raised(error) == [threw |-> TRUE, valid |-> FALSE, error |-> error]

\* A rule object; every field is optional.  A rule written as null in the
\* manifest is NullRule: reading a field of it raises a TypeError.
Rule(type, const, enum, items, properties) ==
  [null |-> FALSE, type |-> type, const |-> const, enum |-> enum,
   items |-> items, properties |-> properties]
NullRule ==
  [null |-> TRUE, type |-> None, const |-> None, enum |-> None,
   items |-> None, properties |-> None]

TypeRule(type) == Rule(Some(type), None, None, None, None)
EnumRule(values) == Rule(None, None, Some(values), None, None)

\* strings the tips look at
LowerCase(s) ==
  CASE s = "False" -> "false"
    [] s = "True" -> "true"
    [] s = "Header" -> "header"
    [] OTHER -> s
NumericStrings == {"", "42"}
HeadingMisspellings == {"header", "heading", "title"}

\* generateTip(value, rule): None stands for null
GenerateTip(value, rule) ==
  IF /\ rule.type = Some("boolean") /\ value.t = "string"
     /\ LowerCase(value.v) \in {"false", "true"}
  THEN Some(<<"String ", value.v, " evaluates to true in templates. Use boolean ",
              LowerCase(value.v), " instead.">>)
  ELSE IF /\ rule.type = Some("number") /\ value.t = "string"
          /\ value.v \in NumericStrings
  THEN Some(<<"String ", value.v, " should be a number. Remove quotes: ", value.v>>)
  ELSE IF /\ IsSome(rule.enum) /\ \E i \in 1..Len(rule.enum[1]) : rule.enum[1][i] = Str("h1")
          /\ value.t = "string" /\ LowerCase(value.v) \in HeadingMisspellings
  THEN Some(<<"Use ", "h1, h2, h3, h4, h5, or h6", " instead of ", value.v, ".">>)
  ELSE None

\* const actualType = Array.isArray(value) ? 'array' : typeof value;
ActualTypeTypeof(value) == TypeOf(value)
ActualType(value) == IF IsArray(value) THEN "array" ELSE TypeOf(value)

\* validateTypeConstraint(value, rule, propertyPath)
ValidateTypeConstraint(value, rule, propertyPath) ==
  IF rule.null THEN Raised(<<"TypeError">>)
  ELSE IF ~IsSome(rule.type) \/ rule.type = Some("") THEN Valid
  ELSE IF ActualType(value) # rule.type[1]
  THEN Invalid([path |-> propertyPath, kind |-> "type",
                text |-> <<": expected ", rule.type[1], ", got ", ActualType(value), value>>,
                tip |-> GenerateTip(value, rule)])
  ELSE Valid

\* validateConstConstraint(value, rule, propertyPath)
ValidateConstConstraint(value, rule, propertyPath) ==
  IF rule.null THEN Raised(<<"TypeError">>)
  ELSE IF ~IsSome(rule.const) THEN Valid
  ELSE IF ~StrictEquals(value, rule.const[1])
  THEN Invalid([path |-> propertyPath, kind |-> "const",
                text |-> <<": expected ", rule.const[1], ", got ", value>>,
                tip |-> None])
  ELSE Valid

\* validateEnumConstraint(value, rule, propertyPath)
ValidateEnumConstraint(value, rule, propertyPath) ==
  IF rule.null THEN Raised(<<"TypeError">>)
  ELSE IF ~IsSome(rule.enum) THEN Valid
  ELSE IF ~\E i \in 1..Len(rule.enum[1]) : StrictEquals(rule.enum[1][i], value)
  THEN Invalid([path |-> propertyPath, kind |-> "enum",
                text |-> <<": ", value, " is invalid. Must be one of: ", rule.enum[1]>>,
                tip |-> GenerateTip(value, rule)])
  ELSE Valid

\* const itemPath = `${propertyPath}[${i}]`;   (i is 1-based here)
ItemPathNoIndex(propertyPath, i) == propertyPath
ItemPath(propertyPath, i) == Append(propertyPath, IndexSegments[i])

RECURSIVE ValidateProperty(_, _, _)
RECURSIVE ValidateObjectPropertiesFrom(_, _, _, _)
RECURSIVE ValidateArrayItemsFrom(_, _, _, _)

\* the body of the for loop of validateArrayItems, from index i (1-based here;
\* the path carries the zero-based index)
ValidateArrayItemsFrom(i, value, rule, propertyPath) ==
  IF i > Len(value.v) THEN Valid
  ELSE
    LET item == value.v[i]
        itemPath == ItemPath(propertyPath, i)
        items == rule.items[1]
        itemValidation ==
          IF IsSome(items.properties)
          THEN ValidateObjectPropertiesFrom(1, item, items.properties[1], itemPath)
          ELSE Valid
        direct == IsSome(items.type) \/ IsSome(items.enum) \/ IsSome(items.const)
        itemResult == IF direct THEN ValidateProperty(item, items, itemPath) ELSE Valid
    IN IF itemValidation.threw \/ ~itemValidation.valid THEN itemValidation
       ELSE IF itemResult.threw \/ ~itemResult.valid THEN itemResult
       ELSE ValidateArrayItemsFrom(i + 1, value, rule, propertyPath)

\* validateArrayItems(value, rule, propertyPath)
ValidateArrayItems(value, rule, propertyPath) ==
  IF rule.null THEN Raised(<<"TypeError">>)
  ELSE IF rule.type # Some("array") \/ ~IsSome(rule.items) \/ ~IsArray(value) THEN Valid
  ELSE ValidateArrayItemsFrom(1, value, rule, propertyPath)

\* value === undefined || value === null
IsAbsentUndefinedOnly(value) == value.t = "undefined"
IsAbsent(value) == value.t \in {"undefined", "null"}

\* validateProperty(value, rule, propertyPath)
ValidateProperty(value, rule, propertyPath) ==
  IF IsAbsent(value) THEN Valid
  ELSE
    LET typeResult == ValidateTypeConstraint(value, rule, propertyPath)
        constResult == ValidateConstConstraint(value, rule, propertyPath)
        enumResult == ValidateEnumConstraint(value, rule, propertyPath)
        arrayResult == ValidateArrayItems(value, rule, propertyPath)
    IN IF typeResult.threw \/ ~typeResult.valid THEN typeResult
       ELSE IF constResult.threw \/ ~constResult.valid THEN constResult
       ELSE IF enumResult.threw \/ ~enumResult.valid THEN enumResult
       ELSE IF arrayResult.threw \/ ~arrayResult.valid THEN arrayResult
       ELSE Valid

\* validateObjectProperties(obj, properties, basePath): properties is the
\* list of [propertyPath, rule] pairs Object.entries yields, from entry i on
ValidateObjectPropertiesFrom(i, obj, properties, basePath) ==
  IF i > Len(properties) THEN Valid
  ELSE
    LET propertyPath == properties[i][1]
        rule == properties[i][2]
        fullPath == basePath \o propertyPath
        value == GetNestedProperty(obj, propertyPath)
        propertyResult == ValidateProperty(value, rule, fullPath)
    IN IF propertyResult.threw \/ ~propertyResult.valid THEN propertyResult
       ELSE ValidateObjectPropertiesFrom(i + 1, obj, properties, basePath)

ValidateObjectProperties(obj, properties, basePath) ==
  ValidateObjectPropertiesFrom(1, obj, properties, basePath)

\* An entry of a `required` list: a dot path, or something that is no string
\* (path.split is then not a function).
PathEntry(keys) == [isString |-> TRUE, keys |-> keys]
NotAString == [isString |-> FALSE, keys |-> <<>>]

\* validateRequiredProperties(obj, required)
RECURSIVE ValidateRequiredProperties(_, _)
ValidateRequiredProperties(obj, required) ==
  IF required = <<>> THEN Valid
  ELSE LET propertyPath == Head(required) IN
       IF ~IsTraversable(obj)
       THEN Invalid([path |-> propertyPath.keys, kind |-> "required",
                     text |-> <<": required property is missing">>, tip |-> None])
       ELSE IF ~propertyPath.isString THEN Raised(<<"TypeError">>)
       ELSE IF ~HasNestedProperty(obj, propertyPath.keys)
       THEN Invalid([path |-> propertyPath.keys, kind |-> "required",
                     text |-> <<": required property is missing">>, tip |-> None])
       ELSE ValidateRequiredProperties(obj, Tail(required))

\* --- validateRequiredProperties called on its own ---

\* an object with the keys title and image, each set (to the value in the
\* option) or not set
ObjectOf(title, image) ==
  Obj([k \in (IF IsSome(title) THEN {"title"} ELSE {})
             \cup (IF IsSome(image) THEN {"image"} ELSE {}) |->
         IF k = "title" THEN title[1] ELSE image[1]])

RequiredObjects ==
  {Null, Str("text")} \cup
  {ObjectOf(title, image) :
     title \in {None, Some(Undefined), Some(Null), Some(Str("Hi"))},
     image \in {None, Some(Null), Some(Str("a.png")), Some(Obj(<<>>)),
                Some(Obj([src |-> Null])), Some(Obj([src |-> Str("a.png")]))}}

RequiredPaths == {<<"title">>, <<"image">>, <<"image", "src">>}

InitRequired ==
  /\ callArgs \in [obj : RequiredObjects,
                    required : SeqsUpTo({PathEntry(keys) : keys \in RequiredPaths},
                                        MaxRequired)]
  /\ pc = "call"
  /\ result = <<>>
  /\ componentMap = <<>>
  /\ ResolverIdle /\ DiscoveryIdle /\ SectionsIdle /\ PluginIdle

ValidateRequiredPropertiesCall ==
  /\ pc = "call"
  /\ result' = ValidateRequiredProperties(callArgs.obj, callArgs.required)
  /\ pc' = "done"
  /\ UNCHANGED <<componentMap, resolverVars, discoveryVars, sectionVars, pluginVars, callArgs>>

NextRequired == ValidateRequiredPropertiesCall

SpecRequired == InitRequired /\ [][NextRequired]_vars

\* --- validateProperty called on its own ---

LabelPath == <<"label">>

\* what an array can hold: strings, a number, null, objects with a label
ItemValues ==
  {Str("a"), Str("c"), Num(1), Null,
   Obj([label |-> Str("a")]), Obj([label |-> Num(1)])}

PropertyValues ==
  {Undefined, Null, Str("a"), Str("c"), Num(1), Bool(TRUE), Obj([label |-> Str("a")])}
  \cup {Arr(items) : items \in SeqsUpTo(ItemValues, MaxArrayLen)}

\* items rules: a direct type, a direct enum, nested properties, both
ItemsRules ==
  {TypeRule("string"),
   EnumRule(<<Str("a"), Str("b")>>),
   Rule(None, None, None, None, Some(<< <<LabelPath, TypeRule("string")>> >>)),
   Rule(Some("object"), None, None, None,
        Some(<< <<LabelPath, EnumRule(<<Str("a"), Str("b")>>)>> >>))}

PropertyRules ==
  {NullRule} \cup
  {Rule(type, const, enum, items, None) :
     type \in {None} \cup {Some(t) : t \in {"string", "number", "boolean", "object", "array"}},
     const \in {None, Some(Str("a"))},
     enum \in {None, Some(<<Str("a"), Str("b")>>)},
     items \in {None} \cup {Some(r) : r \in ItemsRules}}

InitProperty ==
  /\ callArgs \in [value : PropertyValues, rule : PropertyRules, propertyPath : {<<"ctas">>}]
  /\ pc = "call"
  /\ result = <<>>
  /\ componentMap = <<>>
  /\ ResolverIdle /\ DiscoveryIdle /\ SectionsIdle /\ PluginIdle

ValidatePropertyCall ==
  /\ pc = "call"
  /\ result' = ValidateProperty(callArgs.value, callArgs.rule, callArgs.propertyPath)
  /\ pc' = "done"
  /\ UNCHANGED <<componentMap, resolverVars, discoveryVars, sectionVars, pluginVars, callArgs>>

NextProperty == ValidatePropertyCall

SpecProperty == InitProperty /\ [][NextProperty]_vars

(***************************************************************************)
(* validation.js: validateSection and validateSections                     *)
(***************************************************************************)

\* manifest.validation when it is an object: { required?, properties? };
\* NonObjectConfig is a truthy value that is no object (true, a string).
ValidationConfig(required, properties) ==
  [object |-> TRUE, required |-> required, properties |-> properties]
NonObjectConfig == [object |-> FALSE, required |-> None, properties |-> None]

\* `${contextPrefix}${result.error}`
WithContext(context, error) == [context |-> context, error |-> error]

\* validateSection(section, validation, context); validation is an option
ValidateSectionPropertiesFirst(section, validation, context) ==
  IF ~IsSome(validation) \/ ~validation[1].object THEN Valid
  ELSE
    LET config == validation[1]
        requiredResult ==
          IF IsSome(config.required)
          THEN ValidateRequiredProperties(section, config.required[1]) ELSE Valid
        propertiesResult ==
          IF IsSome(config.properties)
          THEN ValidateObjectProperties(section, config.properties[1], <<>>) ELSE Valid
    IN IF propertiesResult.threw THEN propertiesResult
       ELSE IF ~propertiesResult.valid
       THEN Invalid(WithContext(context, propertiesResult.error))
       ELSE IF requiredResult.threw THEN requiredResult
       ELSE IF ~requiredResult.valid
       THEN Invalid(WithContext(context, requiredResult.error))
       ELSE Valid
ValidateSection(section, validation, context) ==
  IF ~IsSome(validation) \/ ~validation[1].object THEN Valid
  ELSE
    LET config == validation[1]
        requiredResult ==
          IF IsSome(config.required)
          THEN ValidateRequiredProperties(section, config.required[1]) ELSE Valid
        propertiesResult ==
          IF IsSome(config.properties)
          THEN ValidateObjectProperties(section, config.properties[1], <<>>) ELSE Valid
    IN IF requiredResult.threw THEN requiredResult
       ELSE IF ~requiredResult.valid
       THEN Invalid(WithContext(context, requiredResult.error))
       ELSE IF propertiesResult.threw THEN propertiesResult
       ELSE IF ~propertiesResult.valid
       THEN Invalid(WithContext(context, propertiesResult.error))
       ELSE Valid

\* component-helpers getManifest( componentMap, sectionType ): throws when
\* the map has no such key (a key is a string)
GetManifest(T, sectionType) ==
  IF sectionType.t = "string" /\ MapHas(T, sectionType.v)
  THEN Returned(Some(MapGet(T, sectionType.v)))
  ELSE Threw(<<"Component ", sectionType, " not found">>)

\* The accessor handed to validateSections: the plugin's, which throws for an
\* unknown type, or a lenient one that answers undefined (map.get).
ThrowingAccessor(T) == [table |-> T, throws |-> TRUE]
LenientAccessor(T) == [table |-> T, throws |-> FALSE]

\* getManifest(sectionType) inside validateSections
CallAccessor(getManifest, sectionType) ==
  IF getManifest.throws THEN GetManifest(getManifest.table, sectionType)
  ELSE IF sectionType.t = "string" /\ MapHas(getManifest.table, sectionType.v)
  THEN Returned(Some(MapGet(getManifest.table, sectionType.v)))
  ELSE Returned(None)

\* errors.push({ propertyPath, message, value, sectionType, sectionIndex, fileName })
SectionError(index, section, sectionType, message, fileName) ==
  [propertyPath |-> <<"sections", IndexSegments[index + 1]>>, message |-> message,
   value |-> section, sectionType |-> sectionType, sectionIndex |-> index,
   fileName |-> fileName]

\* `Section ${index} (${sectionType}) in ${fileName}:`
SectionContext(index, sectionType, fileName) ==
  IF fileName # "" THEN <<"Section ", index, sectionType, " in ", fileName>>
  ELSE <<"Section ", index, sectionType>>

\* What the try block does for one typed section: the records it adds, and
\* whether the exception (absorbed by the catch, which only warns) escapes.
TrySectionRethrows(section, index, sectionType, getManifest, fileName) ==
  LET got == CallAccessor(getManifest, sectionType) IN
  IF got.threw THEN Threw(got.error)
  ELSE IF ~IsSome(got.value) \/ ~IsSome(got.value[1].validation) THEN Returned(<<>>)
  ELSE LET checked == ValidateSection(section, got.value[1].validation,
                                       SectionContext(index, sectionType, fileName))
       IN IF checked.threw THEN Threw(checked.error)
          ELSE IF ~checked.valid
          THEN Returned(<<SectionError(index, section, sectionType, checked.error, fileName)>>)
          ELSE Returned(<<>>)
TrySection(section, index, sectionType, getManifest, fileName) ==
  LET got == CallAccessor(getManifest, sectionType) IN
  IF got.threw THEN Returned(<<>>)
  ELSE IF ~IsSome(got.value) \/ ~IsSome(got.value[1].validation) THEN Returned(<<>>)
  ELSE LET checked == ValidateSection(section, got.value[1].validation,
                                       SectionContext(index, sectionType, fileName))
       IN IF checked.threw THEN Returned(<<>>)
          ELSE IF ~checked.valid
          THEN Returned(<<SectionError(index, section, sectionType, checked.error, fileName)>>)
          ELSE Returned(<<>>)

\* the forEach callback for the entry at `index` (zero-based)
SectionCallback(section, index, getManifest, fileName) ==
  IF ~Truthy(section) \/ TypeOf(section) # "object" THEN Returned(<<>>)
  ELSE LET sectionType == GetKey(section, "sectionType") IN
       IF ~Truthy(sectionType) THEN Returned(<<>>)
       ELSE TrySection(section, index, sectionType, getManifest, fileName)

\* sections.forEach( (section, index) => ... ), from the entry at position i;
\* an exception leaving a callback would end the loop and the call
RECURSIVE SectionsLoop(_, _, _, _, _)
SectionsLoop(i, entries, getManifest, fileName, errors) ==
  IF i > Len(entries) THEN Returned(errors)
  ELSE LET one == SectionCallback(entries[i], i - 1, getManifest, fileName) IN
       IF one.threw THEN one
       ELSE SectionsLoop(i + 1, entries, getManifest, fileName, errors \o one.value)

\* validateSections(sections, getManifest, fileName)
ValidateSectionsNoArrayCheck(sections, getManifest, fileName) ==
  IF ~IsArray(sections) THEN Threw(<<"TypeError">>)
  ELSE SectionsLoop(1, sections.v, getManifest, fileName, <<>>)
ValidateSections(sections, getManifest, fileName) ==
  IF ~IsArray(sections) THEN Returned(<<>>)
  ELSE SectionsLoop(1, sections.v, getManifest, fileName, <<>>)

(***************************************************************************)
(* validateSections on its own: arrays of entries against a small table    *)
(***************************************************************************)

TitlePath == <<"title">>

\* validation configs: none, a non-object, required title, typed title, both,
\* a null rule (raises once title is present), a non-string required entry
\* (raises)
RequireTitle == Some(ValidationConfig(Some(<<PathEntry(TitlePath)>>), None))
TitleIsString ==
  Some(ValidationConfig(None, Some(<< <<TitlePath, TypeRule("string")>> >>)))
RequireStringTitle ==
  Some(ValidationConfig(Some(<<PathEntry(TitlePath)>>),
                        Some(<< <<TitlePath, TypeRule("string")>> >>)))
TitleNullRule == Some(ValidationConfig(None, Some(<< <<TitlePath, NullRule>> >>)))
RequireNonString == Some(ValidationConfig(Some(<<NotAString>>), None))
\* a required title, then two rules: a string title and a numeric sectionType
\* (which no typed section satisfies)
RequireTitleTwoRules ==
  Some(ValidationConfig(Some(<<PathEntry(TitlePath)>>),
                        Some(<< <<TitlePath, TypeRule("string")>>,
                                <<<<"sectionType">>, TypeRule("number")>> >>)))

ValidationChoices ==
  {None, Some(NonObjectConfig), RequireTitle, TitleIsString, RequireStringTitle,
   TitleNullRule, RequireNonString, RequireTitleTwoRules}

\* tables of the accessor: hero with any of the configs or absent, button
\* requiring a title or absent, icon never there
SectionTables ==
  { h \o b : h \in {<<>>} \cup {<<ComponentWith("hero", <<>>, v)>> : v \in ValidationChoices},
             b \in {<<>>, <<ComponentWith("button", <<>>, RequireTitle)>>} }

\* a section object of the given type, with or without a title
TypedSection(type, title) ==
  IF title = Undefined THEN Obj([sectionType |-> Str(type)])
  ELSE Obj([sectionType |-> Str(type), title |-> title])

TitleChoices == {Undefined, Null, Str("Hi"), Num(7)}

SectionEntries ==
  {Null, Undefined, Str("text"), Obj([title |-> Str("Hi")]),
   Obj([sectionType |-> Str(""), title |-> Str("Hi")])}
  \cup {TypedSection(type, title) : type \in Names, title \in TitleChoices}

SectionArguments ==
  {Arr(entries) : entries \in SeqsUpTo(SectionEntries, MaxSections)}
  \cup {Undefined, Null, Str("text"), Obj([sectionType |-> Str("hero")])}

InitSections ==
  /\ sectionsArg \in SectionArguments
  /\ \E T \in SectionTables : getManifestArg \in {ThrowingAccessor(T), LenientAccessor(T)}
  /\ fileNameArg \in {"", "index.html"}
  /\ componentMap = <<>>
  /\ pc = "call"
  /\ result = <<>>
  /\ ResolverIdle /\ DiscoveryIdle /\ PluginIdle /\ CallIdle

ValidateSectionsCall ==
  /\ pc = "call"
  /\ result' = ValidateSections(sectionsArg, getManifestArg, fileNameArg)
  /\ pc' = "done"
  /\ UNCHANGED <<componentMap, resolverVars, discoveryVars, sectionVars, pluginVars, callArgs>>

NextSections == ValidateSectionsCall

SpecSections == InitSections /\ [][NextSections]_vars

(***************************************************************************)
(* component-discovery.js: collectComponents and loadComponent.  A root    *)
(* directory is unset when it does not exist, else the list readdirSync    *)
(* gives; an entry holds its name, whether stat says it is a directory,    *)
(* and what its manifest.json is.                                          *)
(***************************************************************************)
\* manifest.json: not there, there with text JSON.parse rejects, or there
\* with text JSON.parse turns into a value
NoManifest == [exists |-> FALSE, parses |-> FALSE, value |-> Undefined]
BrokenManifest == [exists |-> TRUE, parses |-> FALSE, value |-> Undefined]
ParsedManifest(value) == [exists |-> TRUE, parses |-> TRUE, value |-> value]

DirEntry(item, isDirectory, manifest) ==
  [item |-> item, isDirectory |-> isDirectory, manifest |-> manifest]

\* autoGenerateManifest( componentPath, componentName )
AutoGenerateManifest(componentName) ==
  Obj([name |-> Str(componentName), type |-> Str("auto"), dependencies |-> Arr(<<>>)])

\* the names a manifest array lists
RECURSIVE NamesListed(_)
NamesListed(items) ==
  IF items = <<>> THEN <<>> ELSE <<Head(items).v>> \o NamesListed(Tail(items))

\* { ...manifest, path, styles, scripts, dependencies: manifest.dependencies || [] }
ComponentFrom(manifest) ==
  [name |-> GetKey(manifest, "name").v,
   requires |-> IF HasKey(manifest, "requires")
                THEN Some(NamesListed(GetKey(manifest, "requires").v)) ELSE None,
   dependencies |-> IF Truthy(GetKey(manifest, "dependencies"))
                    THEN Some(NamesListed(GetKey(manifest, "dependencies").v))
                    ELSE Some(<<>>),
   validation |-> None]

\* TypeError: Cannot read properties of null (reading 'name')
NullManifestError == <<"Cannot read properties of null (reading 'name')">>

\* loadComponent( componentPath, componentName ): a component, null, or the
\* TypeError of reading `name` off a manifest that parsed to null
LoadComponent(entry) ==
  IF entry.manifest.exists /\ ~entry.manifest.parses THEN Returned(None)
  ELSE LET manifest == IF entry.manifest.exists THEN entry.manifest.value
                       ELSE AutoGenerateManifest(entry.item)
       IN IF manifest.t \in {"null", "undefined"} THEN Threw(NullManifestError)
          ELSE IF ~Truthy(GetKey(manifest, "name")) THEN Returned(None)
          ELSE Returned(Some(ComponentFrom(manifest)))

\* items.forEach( item => ... ), from entry i on
RECURSIVE CollectFrom(_, _, _)
CollectFrom(i, items, components) ==
  IF i > Len(items) THEN Returned(components)
  ELSE IF ~items[i].isDirectory THEN CollectFrom(i + 1, items, components)
  ELSE LET component == LoadComponent(items[i])
       IN IF component.threw THEN component
          ELSE CollectFrom(i + 1, items,
                           IF IsSome(component.value)
                           THEN Append(components, component.value[1])
                           ELSE components)

\* collectComponents( dirPath )
CollectComponents(dir) ==
  IF ~IsSome(dir) THEN Returned(<<>>) ELSE CollectFrom(1, dir[1], <<>>)

\* collectComponents called on its own.  The manifests of the model: none,
\* unparsable, `null`, an object without a name, one with an empty name, and
\* one that names the component (with or without a dependency).
ManifestsOf(item) ==
  {NoManifest, BrokenManifest, ParsedManifest(Null),
   ParsedManifest(Obj([type |-> Str("test")])),
   ParsedManifest(Obj([name |-> Str("")])),
   ParsedManifest(Obj([name |-> Str(item)])),
   ParsedManifest(Obj([name |-> Str(item), dependencies |-> Arr(<<Str("icon")>>)]))}

EntriesNamed(item) ==
  {DirEntry(item, FALSE, NoManifest)} \cup
  {DirEntry(item, TRUE, m) : m \in ManifestsOf(item)}

\* directory listings: each name at most once, in any order
Listings ==
  UNION { {l \in SeqsOfLen(UNION {EntriesNamed(n) : n \in Names}, k) :
             NoDuplicates([i \in 1..k |-> l[i].item])} : k \in 0..MaxEntries }

RootDirectories == {None} \cup {Some(l) : l \in Listings}

InitCollect ==
  /\ callArgs \in [dirPath : RootDirectories]
  /\ pc = "call"
  /\ result = <<>>
  /\ componentMap = <<>>
  /\ ResolverIdle /\ DiscoveryIdle /\ SectionsIdle /\ PluginIdle

CollectComponentsCall ==
  /\ pc = "call"
  /\ result' = CollectComponents(callArgs.dirPath)
  /\ pc' = "done"
  /\ UNCHANGED <<componentMap, resolverVars, discoveryVars, sectionVars, pluginVars, callArgs>>

NextCollect == CollectComponentsCall

SpecCollect == InitCollect /\ [][NextCollect]_vars

(***************************************************************************)
(* template-parser.js.  A template's contents are held as the paths its    *)
(* {% from "..." import %} and {% include "..." %} statements name, in the *)
(* order the two patterns meet them; a path is its '/'-separated segments. *)
(***************************************************************************)

Template(imports, includes) == [imports |-> imports, includes |-> includes]

\* Set.add on a Set held as its insertion order
SetAdd(set, x) == IF x \in Range(set) THEN set ELSE Append(set, x)

RECURSIVE SetAddAll(_, _)
SetAddAll(set, xs) ==
  IF xs = <<>> THEN set ELSE SetAddAll(SetAdd(set, Head(xs)), Tail(xs))

\* extractComponentName: the segment after the first directory marker that
\* has one; null otherwise
ExtractFromLastMarker(i, segments, componentDirs) ==
  LET markers == {j \in i..(Len(segments) - 1) : segments[j] \in Range(componentDirs)}
  IN IF markers = {} THEN None
     ELSE Some(segments[(CHOOSE j \in markers : \A k \in markers : k <= j) + 1])
RECURSIVE ExtractFrom(_, _, _)
ExtractFrom(i, segments, componentDirs) ==
  IF i > Len(segments) THEN None
  ELSE IF segments[i] \in Range(componentDirs) /\ i + 1 <= Len(segments)
  THEN Some(segments[i + 1])
  ELSE ExtractFrom(i + 1, segments, componentDirs)

ExtractComponentName(importPath, componentDirs) ==
  ExtractFrom(1, importPath, componentDirs)

\* while ( match ) { name = extractComponentName(..); if ( name ) add }
RECURSIVE AddPaths(_, _, _)
AddPaths(set, paths, componentDirs) ==
  IF paths = <<>> THEN set
  ELSE LET componentName == ExtractComponentName(Head(paths), componentDirs) IN
       AddPaths(IF IsSome(componentName) /\ componentName[1] # ""
                THEN SetAdd(set, componentName[1]) ELSE set,
                Tail(paths), componentDirs)

ParseTemplateFile(fileContent, componentDirs) ==
  AddPaths(AddPaths(<<>>, fileContent.imports, componentDirs),
           fileContent.includes, componentDirs)

\* extractComponentName and parseTemplateFile called on their own: a path is
\* held as importPath.split( '/' ), which has at least one segment and may
\* have empty ones; the template holds one tag with that path.
PathSegments == {"components", "_partials", "sections", "button", ""}
ImportPaths == SeqsUpTo(PathSegments, MaxSegments) \ {<<>>}
MarkerLists == {<<>>, <<"sections">>, <<"_partials", "sections">>}
TagKinds == {"from", "include"}

TemplateWithTag(tag, importPath) ==
  IF tag = "from" THEN Template(<<importPath>>, <<>>)
  ELSE Template(<<>>, <<importPath>>)

InitExtract ==
  /\ callArgs \in [importPath : ImportPaths, componentDirs : MarkerLists,
                   tag : TagKinds]
  /\ pc = "call"
  /\ result = <<>>
  /\ componentMap = <<>>
  /\ ResolverIdle /\ DiscoveryIdle /\ SectionsIdle /\ PluginIdle

ExtractComponentNameCall ==
  /\ pc = "call"
  /\ result' = [name |-> ExtractComponentName(callArgs.importPath, callArgs.componentDirs),
                imported |-> ParseTemplateFile(
                               TemplateWithTag(callArgs.tag, callArgs.importPath),
                               callArgs.componentDirs)]
  /\ pc' = "done"
  /\ UNCHANGED <<componentMap, resolverVars, discoveryVars, sectionVars, pluginVars, callArgs>>

NextExtract == ExtractComponentNameCall

SpecExtract == InitExtract /\ [][NextExtract]_vars

\* A file of the Metalsmith files object: its key, its frontmatter sections
\* (a value) and its contents (unset, or a template).
File(name, sections, contents) ==
  [name |-> name, sections |-> sections, contents |-> contents]

\* The file names of the model and the dot-suffix each one ends with.
FileOrder == <<"index.html", "page.htm", "about.md", "notes.markdown", "layout.njk">>
FileSuffix ==
  [n \in Range(FileOrder) |->
     CASE n = "index.html" -> ".html" [] n = "page.htm" -> ".htm"
       [] n = "about.md" -> ".md" [] n = "notes.markdown" -> ".markdown"
       [] OTHER -> ".njk"]

\* fileName.endsWith( suffix ), for the suffixes the plugin asks about: none
\* of them is the tail of another
EndsWith(fileName, suffix) ==
  fileName \in DOMAIN FileSuffix /\ FileSuffix[fileName] = suffix

\* section && typeof section === 'object' && section.sectionType
NamesSectionType(section) ==
  /\ Truthy(section) /\ TypeOf(section) = "object"
  /\ Truthy(GetKey(section, "sectionType"))

\* file.sections.forEach( section => ... allUsedComponents.add( sectionType ) )
\* (section types are strings throughout the model)
RECURSIVE AddSectionTypes(_, _)
AddSectionTypes(set, entries) ==
  IF entries = <<>> THEN set
  ELSE AddSectionTypes(IF NamesSectionType(Head(entries))
                       THEN SetAdd(set, GetKey(Head(entries), "sectionType").v)
                       ELSE set,
                       Tail(entries))

\* the body of detectUsedComponents' forEach, for one file
DetectInFile(set, file, componentDirs) ==
  IF ~EndsWith(file.name, ".njk") /\ ~EndsWith(file.name, ".html") THEN set
  ELSE LET withSections ==
             IF Truthy(file.sections) /\ IsArray(file.sections)
             THEN AddSectionTypes(set, file.sections.v) ELSE set
       IN IF ~IsSome(file.contents) THEN withSections
          ELSE SetAddAll(withSections, ParseTemplateFile(file.contents[1], componentDirs))

RECURSIVE DetectInFiles(_, _, _)
DetectInFiles(set, pageFiles, componentDirs) ==
  IF pageFiles = <<>> THEN set
  ELSE DetectInFiles(DetectInFile(set, Head(pageFiles), componentDirs),
                     Tail(pageFiles), componentDirs)

\* scanLayoutFiles: every readable .njk file under the layouts directory is
\* parsed (no directory, no files)
RECURSIVE ScanLayoutFiles(_, _)
ScanLayoutFiles(layoutTemplates, componentDirs) ==
  IF layoutTemplates = <<>> THEN <<>>
  ELSE SetAddAll(ParseTemplateFile(Head(layoutTemplates), componentDirs),
                 ScanLayoutFiles(Tail(layoutTemplates), componentDirs))

DetectUsedComponents(pageFiles, componentDirs, layoutTemplates) ==
  SetAddAll(DetectInFiles(<<>>, pageFiles, componentDirs),
            ScanLayoutFiles(layoutTemplates, componentDirs))

(***************************************************************************)
(* template-parser.js: scanLayoutFiles over a directory tree.  An entry of *)
(* readdirSync( dir, { withFileTypes: true } ) holds its name, its kind,   *)
(* its text as a template (unset when it cannot be read) and, for a        *)
(* directory, its own entries.                                             *)
(***************************************************************************)
LayoutEntry(name, kind, contents, children) ==
  [name |-> name, kind |-> kind, contents |-> contents, children |-> children]

\* scanDirectory( dir ): listing order, depth first, one shared Set
ScanDirectoryHtmlToo(set, entries, componentDirs) ==
  LET RECURSIVE Scan(_, _)
      Scan(acc, es) ==
        IF es = <<>> THEN acc
        ELSE LET entry == Head(es) IN
             Scan(IF entry.kind = "directory" THEN Scan(acc, entry.children)
                  ELSE IF /\ entry.kind = "file"
                          /\ (EndsWith(entry.name, ".njk") \/ EndsWith(entry.name, ".html"))
                          /\ IsSome(entry.contents)
                  THEN SetAddAll(acc, ParseTemplateFile(entry.contents[1], componentDirs))
                  ELSE acc,
                  Tail(es))
  IN Scan(set, entries)
RECURSIVE ScanDirectory(_, _, _)
ScanDirectory(set, entries, componentDirs) ==
  IF entries = <<>> THEN set
  ELSE LET entry == Head(entries) IN
       ScanDirectory(
         IF entry.kind = "directory"
         THEN ScanDirectory(set, entry.children, componentDirs)
         ELSE IF entry.kind = "file" /\ EndsWith(entry.name, ".njk")
         THEN IF IsSome(entry.contents)
              THEN SetAddAll(set, ParseTemplateFile(entry.contents[1], componentDirs))
              ELSE set
         ELSE set,
         Tail(entries), componentDirs)

\* scanLayoutFiles( layoutDir, componentDirs ): no directory, no names
ScanLayoutTree(layoutDir, componentDirs) ==
  IF ~IsSome(layoutDir) THEN <<>> ELSE ScanDirectory(<<>>, layoutDir[1], componentDirs)

\* the files of a tree as the keys and values of a page file map
RECURSIVE AsPageFiles(_)
AsPageFiles(entries) ==
  IF entries = <<>> THEN <<>>
  ELSE LET entry == Head(entries) IN
       (IF entry.kind = "directory" THEN AsPageFiles(entry.children)
        ELSE IF entry.kind = "file"
        THEN <<File(entry.name, Undefined, entry.contents)>>
        ELSE <<>>)
       \o AsPageFiles(Tail(entries))

\* The trees of the model: files of every name of FileOrder, unreadable or
\* holding a tag for button or for icon, sockets, and directories of such.
ButtonTemplate ==
  Template(<< <<"components", "_partials", "button", "button.njk">> >>, <<>>)
IconTemplate ==
  Template(<<>>, << <<"components", "sections", "icon", "icon.njk">> >>)

LayoutFiles ==
  {LayoutEntry(n, "file", c, <<>>) :
     n \in Range(FileOrder), c \in {None, Some(ButtonTemplate), Some(IconTemplate)}}
  \cup {LayoutEntry("layout.njk", "other", None, <<>>)}

LayoutTrees ==
  SeqsUpTo(LayoutFiles \cup
           {LayoutEntry("partials", "directory", None, <<f>>) : f \in LayoutFiles},
           MaxLayoutEntries)

InitLayout ==
  /\ callArgs \in [layoutDir : {None} \cup {Some(t) : t \in LayoutTrees},
                   componentDirs : {<<"_partials", "sections">>}]
  /\ pc = "call"
  /\ result = <<>>
  /\ componentMap = <<>>
  /\ ResolverIdle /\ DiscoveryIdle /\ SectionsIdle /\ PluginIdle

\* the tree scanned as the layouts directory, and its files scanned as page
\* files of the same names
ScanLayoutFilesCall ==
  /\ pc = "call"
  /\ result' = [layout |-> ScanLayoutTree(callArgs.layoutDir, callArgs.componentDirs),
                page |-> IF IsSome(callArgs.layoutDir)
                         THEN DetectInFiles(<<>>, AsPageFiles(callArgs.layoutDir[1]),
                                            callArgs.componentDirs)
                         ELSE <<>>]
  /\ pc' = "done"
  /\ UNCHANGED <<componentMap, resolverVars, discoveryVars, sectionVars, pluginVars, callArgs>>

NextLayout == ScanLayoutFilesCall

SpecLayout == InitLayout /\ [][NextLayout]_vars

(***************************************************************************)
(* dependency-resolver.js: filterNeededComponents                          *)
(***************************************************************************)

\* the components of the list that bear the given name
NamedComponents(allComponents, name) ==
  SelectSeq(allComponents, LAMBDA component : component.name = name)

RECURSIVE ConcatNamed(_, _, _)
ConcatNamed(allComponents, neededComponents, i) ==
  IF i > Len(NameOrder) THEN <<>>
  ELSE (IF NameOrder[i] \in neededComponents
        THEN NamedComponents(allComponents, NameOrder[i]) ELSE <<>>)
       \o ConcatNamed(allComponents, neededComponents, i + 1)

FilterNeededComponentsByNeeded(allComponents, neededComponents) ==
  ConcatNamed(allComponents, neededComponents, 1)
FilterNeededComponentsAll(allComponents, neededComponents) == allComponents
FilterNeededComponents(allComponents, neededComponents) ==
  SelectSeq(allComponents, LAMBDA component : component.name \in neededComponents)

\* --- filterNeededComponents called on its own ---

InitFilter ==
  /\ callArgs \in [allComponents : SeqsUpTo(DiscoveredComponents, MaxComponents),
                    neededComponents : SUBSET Names]
  /\ pc = "call"
  /\ result = <<>>
  /\ componentMap = <<>>
  /\ ResolverIdle /\ DiscoveryIdle /\ SectionsIdle /\ PluginIdle

FilterNeededComponentsCall ==
  /\ pc = "call"
  /\ result' = FilterNeededComponents(callArgs.allComponents, callArgs.neededComponents)
  /\ pc' = "done"
  /\ UNCHANGED <<componentMap, resolverVars, discoveryVars, sectionVars, pluginVars, callArgs>>

NextFilter == FilterNeededComponentsCall

SpecFilter == InitFilter /\ [][NextFilter]_vars

(***************************************************************************)
(* The four utility functions called one after another on the same table,  *)
(* used set, component list and sections, in any order and any number of   *)
(* times.                                                                  *)
(***************************************************************************)
\* a table whose hero requires a title, for the manifest accessor
FrameSectionTable == <<ComponentWith("hero", <<>>, RequireTitle)>>

FrameSections ==
  {Arr(<<TypedSection("hero", Undefined)>>),
   Arr(<<Null, TypedSection("hero", Str("Hi"))>>)}

InitFrame ==
  /\ usedComponents \in UsedSets
  /\ componentMap \in Tables
  /\ callArgs = [allComponents |-> componentMap,
                 neededComponents |-> Range(usedComponents)]
  /\ sectionsArg \in FrameSections
  /\ getManifestArg = ThrowingAccessor(FrameSectionTable)
  /\ fileNameArg = "index.html"
  /\ resolved = {} /\ queue = <<>> /\ pushed = <<>>
  /\ pc = "call"
  /\ result = <<>>
  /\ DiscoveryIdle /\ PluginIdle

\* the caller goes on to its next call
CallAgain ==
  /\ pc = "done"
  /\ pc' = "call"
  /\ result' = <<>>
  /\ resolved' = {} /\ queue' = <<>> /\ pushed' = <<>>
  /\ UNCHANGED <<usedComponents, componentMap, discoveryVars, sectionVars, pluginVars, callArgs>>

NextFrame ==
  \/ ResolveBegin \/ ResolveStep \/ ResolveReturn
  \/ FilterNeededComponentsCall
  \/ ValidateRequirementsCall
  \/ ValidateSectionsCall
  \/ CallAgain

SpecFrame == InitFrame /\ [][NextFrame]_vars

(***************************************************************************)
(* index.js (earlier source): resolveDependencyOrder, the depth-first      *)
(* ordering with cycle detection.  It reads component.dependencies.        *)
(***************************************************************************)
LegacyComponent(name, dependencies) == [name |-> name, dependencies |-> dependencies]

\* new Error( `Circular dependency: ${ path.join( ' → ' ) } → ${ name }` )
CircularError(path, name) == [path |-> path, name |-> name]

\* the sets and the array the traversal works on; error is set once thrown
Traversal(visited, visiting, order, error) ==
  [visited |-> visited, visiting |-> visiting, order |-> order, error |-> error]

\* if ( visited.has( name ) ) return;
AlreadyVisitedNever(st, name) == FALSE
AlreadyVisited(st, name) == name \in st.visited

RECURSIVE Visit(_, _, _, _)
RECURSIVE VisitDependencies(_, _, _, _)

\* visit( name, path )
Visit(name, path, st, T) ==
  IF AlreadyVisited(st, name) THEN st
  ELSE IF name \in st.visiting
  THEN [st EXCEPT !.error = Some(CircularError(path, name))]
  ELSE LET entered == [st EXCEPT !.visiting = @ \cup {name}]
           after == VisitDependencies(MapGet(T, name).dependencies,
                                      Append(path, name), entered, T)
       IN IF IsSome(after.error) THEN after
          ELSE [after EXCEPT !.visiting = @ \ {name},
                             !.visited = @ \cup {name},
                             !.order = Append(@, name)]

\* component.dependencies.forEach( dependency => visit( dependency, [ ...path, name ] ) )
VisitDependencies(dependencies, path, st, T) ==
  IF dependencies = <<>> \/ IsSome(st.error) THEN st
  ELSE VisitDependencies(Tail(dependencies), path,
                         Visit(Head(dependencies), path, st, T), T)

\* componentMap.forEach( ( _, name ) => visit( name ) ), from entry i on
RECURSIVE VisitAllFrom(_, _, _)
VisitAllFrom(i, st, T) ==
  IF i > Len(T) \/ IsSome(st.error) THEN st
  ELSE VisitAllFrom(i + 1, Visit(T[i].name, <<>>, st, T), T)

\* resolveDependencyOrder( componentMap )
ResolveDependencyOrder(T) ==
  LET st == VisitAllFrom(1, Traversal({}, {}, <<>>, None), T)
  IN IF IsSome(st.error) THEN Threw(st.error[1]) ELSE Returned(st.order)

\* the tables of the model in which every declared dependency exists
LegacyTables ==
  {[i \in 1..Len(T) |-> LegacyComponent(T[i].name, Requirements(T[i]))] :
     T \in {X \in Tables : \A i \in 1..Len(X) :
                             \A r \in Range(Requirements(X[i])) : MapHas(X, r)}}

InitOrder ==
  /\ callArgs \in [componentMap : LegacyTables]
  /\ pc = "call"
  /\ result = <<>>
  /\ componentMap = <<>>
  /\ ResolverIdle /\ DiscoveryIdle /\ SectionsIdle /\ PluginIdle

ResolveDependencyOrderCall ==
  /\ pc = "call"
  /\ result' = ResolveDependencyOrder(callArgs.componentMap)
  /\ pc' = "done"
  /\ UNCHANGED <<componentMap, resolverVars, discoveryVars, sectionVars, pluginVars, callArgs>>

NextOrder == ResolveDependencyOrderCall

SpecOrder == InitOrder /\ [][NextOrder]_vars

(***************************************************************************)
(* The requirement list as both readers see it: resolveAllDependencies and *)
(* validateRequirements on tables whose components carry `requires`,       *)
(* `dependencies`, both or neither.                                        *)
(***************************************************************************)
\* a field of a component: unset, the empty list, or one name
FieldValues == {None, Some(<<>>)} \cup {Some(<<n>>) : n \in Names}

ComponentsNamed(name) ==
  {[name |-> name, requires |-> r, dependencies |-> d, validation |-> None] :
     r \in FieldValues, d \in FieldValues}

\* tables over NameOrder[i..], entries in NameOrder order
RECURSIVE FieldTablesFrom(_)
FieldTablesFrom(i) ==
  IF i > Len(NameOrder) THEN {<<>>}
  ELSE FieldTablesFrom(i + 1) \cup
       { <<c>> \o t : c \in ComponentsNamed(NameOrder[i]), t \in FieldTablesFrom(i + 1) }

InitFields ==
  /\ callArgs \in [usedComponents : {<<>>} \cup {<<n>> : n \in Names},
                   componentMap : FieldTablesFrom(1)]
  /\ pc = "call"
  /\ result = <<>>
  /\ componentMap = <<>>
  /\ ResolverIdle /\ DiscoveryIdle /\ SectionsIdle /\ PluginIdle

\* both readers called on the same table
ReadRequirementsCall ==
  /\ pc = "call"
  /\ result' = [resolved |-> ResolveAllDependencies(callArgs.usedComponents,
                                                    callArgs.componentMap),
                errors |-> ValidateRequirements(callArgs.componentMap)]
  /\ pc' = "done"
  /\ UNCHANGED <<componentMap, resolverVars, discoveryVars, sectionVars, pluginVars, callArgs>>

NextFields == ReadRequirementsCall

SpecFields == InitFields /\ [][NextFields]_vars

(***************************************************************************)
(* index.js: the plugin run                                                *)
(***************************************************************************)

\* path.basename of the default basePath and sectionsPath
ComponentDirs == <<"_partials", "sections">>

Options(enabled, strict, reportAllErrors) ==
  [validation |-> [enabled |-> enabled, strict |-> strict,
                   reportAllErrors |-> reportAllErrors],
   cssDest |-> "assets/main.css", jsDest |-> "assets/main.js"]

NoComponentsError == <<"No components found in specified directories.">>
SectionValidationError == <<"Section validation failed">>
RequirementValidationError == <<"Component requirement validation failed">>
BundlerError == <<"bundleWithESBuild failed">>
\* what the completion callback throws, when it throws
CallbackError == <<"done threw">>

\* the filter on Object.keys( files ) ahead of section validation
IsContentFile(fileName) ==
  \/ EndsWith(fileName, ".html") \/ EndsWith(fileName, ".htm")
  \/ EndsWith(fileName, ".md") \/ EndsWith(fileName, ".markdown")

\* the forEach over the content files: the errors pushed so far, and the
\* names of the files whose sections were handed to validateSections
RECURSIVE ValidateFiles(_, _, _, _)
ValidateFiles(pageFiles, T, allValidationErrors, validated) ==
  IF pageFiles = <<>>
  THEN [errors |-> allValidationErrors, validated |-> validated]
  ELSE LET file == Head(pageFiles) IN
       IF /\ IsContentFile(file.name)
          /\ Truthy(file.sections) /\ IsArray(file.sections)
       THEN ValidateFiles(Tail(pageFiles), T,
              allValidationErrors
                \o ValidateSections(file.sections, ThrowingAccessor(T), file.name).value,
              Append(validated, file.name))
       ELSE ValidateFiles(Tail(pageFiles), T, allValidationErrors, validated)

\* if ( allValidationErrors.length > 0 ) { ... if ( strict ) throw ... }
ValidationStopsBuildAlways(allValidationErrors, opts) == Len(allValidationErrors) > 0
ValidationStopsBuild(allValidationErrors, opts) ==
  Len(allValidationErrors) > 0 /\ opts.validation.strict

\* if ( requirementErrors.length > 0 ) throw
RequirementsStopBuildNever(requirementErrors) == FALSE
RequirementsStopBuild(requirementErrors) == Len(requirementErrors) > 0

RejectedAfterBundling(error, table, validated) ==
  [error |-> Some(error), table |-> table, validated |-> validated,
   call |-> Some([baseComponents |-> <<>>, sectionComponents |-> <<>>])]
Rejected(error, table, validated) ==
  [error |-> Some(error), table |-> table, validated |-> validated, call |-> None]
Bundling(call, table, validated) ==
  [error |-> None, table |-> table, validated |-> validated, call |-> Some(call)]

\* processComponents from resolveAllDependencies to the bundler call, for the
\* table T and the used set: the error thrown or the bundler's arguments
ResolveValidateBundle(base, sect, pageFiles, opts, T, used) ==
  Only({ IF ValidationStopsBuild(validation.errors, opts)
         THEN Rejected(SectionValidationError, T, validation.validated)
         ELSE IF RequirementsStopBuild(requirementErrors)
         THEN Rejected(RequirementValidationError, T, validation.validated)
         ELSE Bundling([baseComponents |-> FilterNeededComponents(base, neededComponents),
                        sectionComponents |-> FilterNeededComponents(sect, neededComponents)],
                       T, validation.validated) :
           neededComponents \in {ResolveAllDependencies(used, T)},
           validation \in {IF opts.validation.enabled
                           THEN ValidateFiles(pageFiles, T, <<>>, <<>>)
                           ELSE [errors |-> <<>>, validated |-> <<>>]},
           requirementErrors \in {ValidateRequirements(T)} })

\* processComponents up to its await: the error it throws or the arguments
\* it hands to bundleWithESBuild, with the table and the files validated
ProcessComponents(base, sect, pageFiles, layoutTemplates, opts) ==
  IF Len(base \o sect) = 0 THEN Rejected(NoComponentsError, <<>>, <<>>)
  ELSE Only({ IF map.threw THEN Rejected(map.error, <<>>, <<>>)
              ELSE ResolveValidateBundle(base, sect, pageFiles, opts, map.value, used) :
                used \in {DetectUsedComponents(pageFiles, ComponentDirs, layoutTemplates)},
                map \in {CreateComponentMap(base \o sect)} })

\* files[ key ] = file: an existing key keeps its place, a new one goes last
SetFile(pageFiles, file) ==
  IF \E i \in 1..Len(pageFiles) : pageFiles[i].name = file.name
  THEN [i \in 1..Len(pageFiles) |->
          IF pageFiles[i].name = file.name THEN file ELSE pageFiles[i]]
  ELSE Append(pageFiles, file)

\* if ( bundledAssets.css ) files[ cssDest ] = ...; the same for js
AddAssets(pageFiles, bundledAssets, opts) ==
  LET withCss == IF Truthy(bundledAssets.css)
                 THEN SetFile(pageFiles, File(opts.cssDest, Undefined, Some(bundledAssets.css)))
                 ELSE pageFiles
  IN IF Truthy(bundledAssets.js)
     THEN SetFile(withCss, File(opts.jsDest, Undefined, Some(bundledAssets.js)))
     ELSE withCss

\* --- the inputs of a run ---

\* hero (a section with a required title, alone or requiring button),
\* button (requiring icon) and icon
PluginComponents ==
  {ComponentWith("hero", <<>>, RequireTitle),
   ComponentWith("hero", <<"button">>, RequireTitle),
   Component("button", <<"icon">>),
   Component("icon", <<>>)}

\* a page importing icon and including a layout partial; a layout including button
PageTemplate ==
  Template(<< <<"components", "sections", "icon", "icon.njk">> >>,
           << <<"layouts", "base.njk">> >>)
LayoutTemplate ==
  Template(<<>>, << <<"components", "_partials", "button", "button.njk">> >>)

\* what a file can hold: nothing, a hero section without its title, an icon
\* section, or a titled hero section with a template importing icon
FilesNamed(name) ==
  {File(name, Undefined, None),
   File(name, Arr(<<TypedSection("hero", Undefined)>>), None),
   File(name, Arr(<<TypedSection("icon", Undefined)>>), None),
   File(name, Arr(<<TypedSection("hero", Str("Hi"))>>), Some(PageTemplate))}

\* files objects over FileOrder[i..] with at most `budget` keys, in FileOrder order
RECURSIVE FilesFrom(_, _)
FilesFrom(i, budget) ==
  IF i > Len(FileOrder) \/ budget <= 0 THEN {<<>>}
  ELSE FilesFrom(i + 1, budget) \cup
       { <<f>> \o rest : f \in FilesNamed(FileOrder[i]),
                         rest \in FilesFrom(i + 1, budget - 1) }

PluginDiscoveries ==
  UNION { SeqsOfLen(PluginComponents, b) \X SeqsOfLen(PluginComponents, s) :
            b \in 0..MaxItems, s \in 0..MaxItems }

InitPlugin ==
  /\ \E d \in {x \in PluginDiscoveries : Len(x[1]) + Len(x[2]) <= MaxItems} :
       /\ allBaseComponents = d[1]
       /\ allSectionComponents = d[2]
  /\ layouts \in {<<>>, <<LayoutTemplate>>}
  /\ files \in FilesFrom(1, MaxItems - Len(allBaseComponents) - Len(allSectionComponents))
  /\ \E enabled, strict, reportAllErrors \in BOOLEAN :
       options = Options(enabled, strict, reportAllErrors)
  /\ validatedFiles = <<>>
  /\ ppc = "start"
  /\ bundlerCalls = <<>> /\ runError = None /\ doneCalls = <<>>
  /\ componentMap = <<>> /\ pc = "idle" /\ result = <<>>
  /\ ResolverIdle /\ SectionsIdle /\ CallIdle

\* plugin( files, metalsmith, done ) up to the await in processComponents
RunPlugin ==
  /\ ppc = "start"
  /\ \E run \in {ProcessComponents(allBaseComponents, allSectionComponents,
                                     files, layouts, options)} :
     /\ componentMap' = run.table
     /\ validatedFiles' = run.validated
     /\ runError' = run.error
     /\ bundlerCalls' = IF IsSome(run.call) THEN Append(bundlerCalls, run.call[1])
                        ELSE bundlerCalls
     /\ ppc' = IF IsSome(run.call) THEN "bundling" ELSE "rejected"
  /\ UNCHANGED <<pc, result, resolverVars, discoveryVars, sectionVars,
                 options, files, layouts, doneCalls, callArgs>>

\* bundleWithESBuild resolves: each asset is null or text; the assets are
\* added to files and .then( () => done() ) runs.  done is the caller's
\* function: it returns, or it throws and the promise of .then rejects.
BundlerResolves ==
  /\ ppc = "bundling"
  /\ \E css, js \in {Null, Str("bundle")} :
       files' = AddAssets(files, [css |-> css, js |-> js], options)
  /\ doneCalls' = Append(doneCalls, None)
  /\ \E doneThrows \in BOOLEAN :
       ppc' = IF doneThrows THEN "thenRejected" ELSE "done"
  /\ UNCHANGED <<componentMap, pc, result, resolverVars, discoveryVars, sectionVars,
                 options, layouts, validatedFiles, bundlerCalls, runError, callArgs>>

\* bundleWithESBuild rejects: processComponents rethrows, .catch calls done( error )
BundlerRejects ==
  /\ ppc = "bundling"
  /\ runError' = Some(BundlerError)
  /\ doneCalls' = Append(doneCalls, Some(BundlerError))
  /\ ppc' = "done"
  /\ UNCHANGED <<componentMap, pc, result, resolverVars, discoveryVars, sectionVars,
                 options, files, layouts, validatedFiles, bundlerCalls, callArgs>>

\* processComponents threw before the await: .catch( error => done( error ) )
CatchDone ==
  /\ ppc = "rejected"
  /\ doneCalls' = Append(doneCalls, runError)
  /\ ppc' = "done"
  /\ UNCHANGED <<componentMap, pc, result, resolverVars, discoveryVars, sectionVars,
                 options, files, layouts, validatedFiles, bundlerCalls, runError, callArgs>>

\* done() threw inside .then: .catch( error => done( error ) ) runs on the
\* rejection and calls done with what it threw
CatchAfterThen ==
  /\ ppc = "thenRejected"
  /\ doneCalls' = Append(doneCalls, Some(CallbackError))
  /\ ppc' = "done"
  /\ UNCHANGED <<componentMap, pc, result, resolverVars, discoveryVars, sectionVars,
                 options, files, layouts, validatedFiles, bundlerCalls, runError, callArgs>>

NextPlugin ==
  RunPlugin \/ BundlerResolves \/ BundlerRejects \/ CatchDone \/ CatchAfterThen

SpecPlugin == InitPlugin /\ [][NextPlugin]_vars

(***************************************************************************)
(* Properties of resolveAllDependencies                                    *)
(***************************************************************************)

\* S contains U and, for each member that has a table entry, its requirements.
ClosedUnder(S, U, T) ==
  /\ U \subseteq S
  /\ \A n \in S : MapHas(T, n) => Range(Requirements(MapGet(T, n))) \subseteq S

LeastClosedSet(U, T) ==
  CHOOSE S \in SUBSET Names :
    /\ ClosedUnder(S, U, T)
    /\ \A S2 \in SUBSET Names : ClosedUnder(S2, U, T) => S \subseteq S2

\* C1: the set returned by resolveAllDependencies(U, T) is the least set that
\* contains U and the requirement lists of its members that have an entry in
\* T (members without an entry stay and are not expanded); it contains U.
C1_LeastClosure ==
  pc = "done" =>
    /\ result = LeastClosedSet(Range(usedComponents), componentMap)
    /\ Range(usedComponents) \subseteq result

\* C1 witness: icon is reached only through button, which hero requires.
C1_Witness ==
  /\ pc = "done"
  /\ usedComponents = <<"hero">>
  /\ MapHas(componentMap, "hero") /\ MapHas(componentMap, "button")
  /\ Requirements(MapGet(componentMap, "hero")) = <<"button">>
  /\ Requirements(MapGet(componentMap, "button")) = <<"icon">>
  /\ result = {"hero", "button", "icon"}

\* Some component of the table reaches itself through requirements.
RECURSIVE ReachFrom(_, _, _)
ReachFrom(S, T, k) ==
  IF k = 0 THEN S
  ELSE ReachFrom(S \cup UNION {Range(Requirements(MapGet(T, n))) :
                                 n \in {m \in S : MapHas(T, m)}}, T, k - 1)
DirectReqs(T, n) == IF MapHas(T, n) THEN Range(Requirements(MapGet(T, n))) ELSE {}
OnCycle(T, n) == n \in ReachFrom(DirectReqs(T, n), T, Cardinality(Names))

\* C9: every call of resolveAllDependencies returns, cyclic and
\* self-requiring tables included, and no name is put on the work queue twice.
C9_TerminatesNoRepeat ==
  /\ <>(pc = "done")
  /\ [](NoDuplicates(pushed))

\* C9 witness: a call that went round a cycle of two components has returned.
C9_Witness ==
  /\ pc = "done"
  /\ \E a, b \in Names :
       /\ a # b
       /\ a \in Range(usedComponents)
       /\ b \in DirectReqs(componentMap, a)
       /\ a \in DirectReqs(componentMap, b)
       /\ OnCycle(componentMap, a)
  /\ \E c \in Names : c \in DirectReqs(componentMap, c) /\ c \in result

\* C10: a name without a table entry, used or required, is not an error and
\* is not dropped: processing it changes neither the result set nor adds to
\* the queue, and the name is in the returned set.
C10_MissingKept ==
  /\ [][ (pc = "loop" /\ Len(queue) > 0 /\ ~MapHas(componentMap, Head(queue)))
           => /\ pc' = "loop"
              /\ resolved' = resolved
              /\ queue' = Tail(queue)
              /\ pushed' = pushed ]_vars
  /\ [](pc = "done" =>
          \A n \in Names :
            (/\ ~MapHas(componentMap, n)
             /\ \/ n \in Range(usedComponents)
                \/ \E m \in result : n \in DirectReqs(componentMap, m))
            => n \in result)

\* C10 witness: a used name and a required name both lack a table entry.
C10_Witness ==
  /\ pc = "done"
  /\ \E n \in Range(usedComponents) : ~MapHas(componentMap, n)
  /\ \E n \in result \ Range(usedComponents) : ~MapHas(componentMap, n)

(***************************************************************************)
(* Properties of createComponentMap and validateRequirements               *)
(***************************************************************************)

AllComponents == allBaseComponents \o allSectionComponents

\* Number of positions of the sequence s that hold x.
Count(s, x) == Cardinality({i \in 1..Len(s) : s[i] = x})

\* C4: createComponentMap raises a duplicate-name error naming the name
\* exactly when two components of base ++ sections share a name; otherwise it
\* returns a table holding exactly the input components, keyed by name.
C4_DuplicateOrTable ==
  pc = "done" =>
    LET in == AllComponents
        clash == \E i, j \in 1..Len(in) : i # j /\ in[i].name = in[j].name
    IN /\ result.threw <=> clash
       /\ result.threw =>
            \E i, j \in 1..Len(in) :
              /\ i # j /\ in[i].name = in[j].name
              /\ result.error = DuplicateError(in[i].name)
       /\ ~result.threw =>
            /\ Len(result.value) = Len(in)
            /\ \A i \in 1..Len(in) :
                 /\ MapHas(result.value, in[i].name)
                 /\ MapGet(result.value, in[i].name) = in[i]
            /\ \A n \in MapKeys(result.value) :
                 Cardinality({k \in 1..Len(result.value) : result.value[k].name = n}) = 1

\* C4 witness: the clash is between a base component and a section component
\* that are not next to each other in the combined sequence.
C4_Witness ==
  /\ pc = "done"
  /\ result.threw
  /\ Len(allBaseComponents) = 2 /\ Len(allSectionComponents) = 1
  /\ allBaseComponents[1].name = allSectionComponents[1].name
  /\ allBaseComponents[2].name # allBaseComponents[1].name
  /\ result.error = DuplicateError(allSectionComponents[1].name)

\* C5: validateRequirements(T) holds one message per occurrence of a name Y
\* without entry in the requirement list of a component X of T, naming X and
\* Y, and nothing else; it is empty exactly when no requirement is missing.
C5_OneMessagePerMissing ==
  pc = "done" =>
    LET T == componentMap
        missing(X, Y) ==
          IF MapHas(T, X) /\ ~MapHas(T, Y)
          THEN Count(Requirements(MapGet(T, X)), Y) ELSE 0
    IN /\ \A X, Y \in Names : Count(result, RequirementError(X, Y)) = missing(X, Y)
       /\ \A k \in 1..Len(result) :
            \E X, Y \in Names : result[k] = RequirementError(X, Y)
       /\ (result = <<>>) <=>
            \A i \in 1..Len(T) : Range(Requirements(T[i])) \subseteq MapKeys(T)

\* C5 witness: one component lists the same missing name twice and another
\* name that exists, so two messages come from one list.
C5_Witness ==
  /\ pc = "done"
  /\ Len(result) = 2
  /\ result[1] = result[2]
  /\ \E i \in 1..Len(componentMap) :
       /\ Len(Requirements(componentMap[i])) = 3
       /\ \E k \in 1..3 : MapHas(componentMap, Requirements(componentMap[i])[k])

(***************************************************************************)
(* Algebraic properties of resolveAllDependencies                          *)
(***************************************************************************)

\* C11: resolveAllDependencies applied to its own result, as the new used
\* set and with the same table, returns the same set.
C11_FixedPoint ==
  pc = "again" => result.second = result.first

\* C11 witness: the first call grew the used set by a chain of two
\* requirements and met a name without entry; the second call ran on that.
C11_Witness ==
  /\ pc = "again"
  /\ usedComponents = <<"hero">>
  /\ result.first = {"hero", "button", "icon"}
  /\ pushed = <<"hero", "button", "icon">>
  /\ ~MapHas(componentMap, "icon")
  /\ result.second = result.first

\* C12: two calls whose used sets hold the same names in different orders
\* and whose tables differ only in the order inside requirement lists return
\* equal sets.
C12_OrderIndependent ==
  pc = "done" => result.first = result.second

\* C12 witness: both the used set and a requirement list of two distinct
\* names were reordered, and more names were added than were used.
C12_Witness ==
  /\ pc = "done"
  /\ Len(usedComponents) = 2
  /\ callArgs.used # usedComponents
  /\ \E i \in 1..Len(componentMap) :
       /\ Requirements(componentMap[i]) # Requirements(callArgs.table[i])
       /\ componentMap[i].name \in Range(usedComponents)
  /\ result.first = Names
  /\ result.second = Names

(***************************************************************************)
(* Properties of filterNeededComponents                                    *)
(***************************************************************************)

\* the positions of the input list whose component has a needed name
NeededPositions ==
  {i \in 1..Len(callArgs.allComponents) :
     callArgs.allComponents[i].name \in callArgs.neededComponents}

\* the k-th smallest member of a set of positions
KthPosition(P, k) == CHOOSE i \in P : Cardinality({j \in P : j <= i}) = k

\* C13: filterNeededComponents(all, needed) is the subsequence of all made
\* of exactly the components whose name is in needed: its k-th entry is the
\* component at the k-th needed position, so order is kept, it is no longer
\* than all and every name in it is needed.
C13_FilterIsSubsequence ==
  pc = "done" =>
    /\ Len(result) = Cardinality(NeededPositions)
    /\ \A k \in 1..Len(result) :
         result[k] = callArgs.allComponents[KthPosition(NeededPositions, k)]
    /\ Len(result) <= Len(callArgs.allComponents)
    /\ \A k \in 1..Len(result) : result[k].name \in callArgs.neededComponents

\* C13 witness: an unneeded component sits between two needed ones, which
\* come out in the order of the list (the reverse of the name order).
C13_Witness ==
  /\ pc = "done"
  /\ Len(callArgs.allComponents) = 3
  /\ callArgs.allComponents[1].name = "icon"
  /\ callArgs.allComponents[2].name = "button"
  /\ callArgs.allComponents[3].name = "hero"
  /\ callArgs.neededComponents = {"hero", "icon"}
  /\ result = <<callArgs.allComponents[1], callArgs.allComponents[3]>>

(***************************************************************************)
(* Properties of validateProperty                                          *)
(***************************************************************************)

\* C14: validateProperty returns valid for a value that is null or
\* undefined, whatever type, const, enum or items the rule carries.
C14_AbsentIsValid ==
  (pc = "done" /\ callArgs.value \in {Null, Undefined}) => result = Valid

\* C14 witness: null under a rule with a type, a const, an enum and items.
C14_Witness ==
  /\ pc = "done"
  /\ callArgs.value = Null
  /\ IsSome(callArgs.rule.type) /\ IsSome(callArgs.rule.const)
  /\ IsSome(callArgs.rule.enum) /\ IsSome(callArgs.rule.items)
  /\ result = Valid

\* the type name a present value is compared under: 'array' for an array,
\* else what typeof says ('object' for an object)
KindOf(value) ==
  CASE value.t = "array" -> "array"
    [] value.t = "object" -> "object"
    [] OTHER -> value.t

\* the value is one of the listed primitives
AmongValues(value, values) ==
  /\ value.t \in {"string", "number", "boolean"}
  /\ \E i \in 1..Len(values) : values[i] = value

TypeStageFails(value, rule) ==
  IsSome(rule.type) /\ rule.type[1] # "" /\ KindOf(value) # rule.type[1]
ConstStageFails(value, rule) ==
  IsSome(rule.const) /\ ~AmongValues(value, <<rule.const[1]>>)
EnumStageFails(value, rule) ==
  IsSome(rule.enum) /\ ~AmongValues(value, rule.enum[1])
ItemsStageFails(value, rule, propertyPath) ==
  ~ValidateArrayItems(value, rule, propertyPath).valid

\* C15: for a present value validateProperty checks type, const, enum and
\* array items in that order and returns the one error of the earliest stage
\* the value violates; it returns valid exactly when no stage is violated.
\* An array is of type 'array' and fails a rule of type 'object'.
C15_FirstFailingStage ==
  (pc = "done" /\ callArgs.value \notin {Null, Undefined} /\ ~callArgs.rule.null) =>
    LET value == callArgs.value
        rule == callArgs.rule
        path == callArgs.propertyPath
    IN /\ ~result.threw
       /\ IF TypeStageFails(value, rule)
          THEN ~result.valid /\ result.error.kind = "type" /\ result.error.path = path
          ELSE IF ConstStageFails(value, rule)
          THEN ~result.valid /\ result.error.kind = "const" /\ result.error.path = path
          ELSE IF EnumStageFails(value, rule)
          THEN ~result.valid /\ result.error.kind = "enum" /\ result.error.path = path
          ELSE IF ItemsStageFails(value, rule, path)
          THEN result = ValidateArrayItems(value, rule, path) /\ result.error.path # path
          ELSE result = Valid
       /\ (IsArray(value) /\ rule.type = Some("object")) =>
            /\ ~result.valid /\ result.error.kind = "type"
            /\ result.error.text = <<": expected ", "object", ", got ", "array", value>>

\* C15 witness: the string 'c' violates both the const and the enum of a
\* rule whose type it satisfies; the const error is the one returned.
C15_Witness ==
  /\ pc = "done"
  /\ callArgs.value = Str("c")
  /\ callArgs.rule.type = Some("string")
  /\ ConstStageFails(callArgs.value, callArgs.rule)
  /\ EnumStageFails(callArgs.value, callArgs.rule)
  /\ ~result.valid
  /\ result.error.kind = "const"

\* the zero-based index of the i-th element, in brackets
BracketedIndex(i) == CASE i = 1 -> "[0]" [] i = 2 -> "[1]" [] OTHER -> "[2]"

\* what the items rule says of one element taken alone, whose path is
\* itemPath: its nested properties rules first, then the items rule taken
\* directly when it carries a type, an enum or a const
ElementVerdict(item, items, itemPath) ==
  LET nested == IF IsSome(items.properties)
                THEN ValidateObjectProperties(item, items.properties[1], itemPath)
                ELSE Valid
      direct == IF IsSome(items.type) \/ IsSome(items.enum) \/ IsSome(items.const)
                THEN ValidateProperty(item, items, itemPath)
                ELSE Valid
  IN IF ~nested.valid THEN nested ELSE direct

\* C16: for an array under a rule of type array with an items rule (and no
\* const or enum, which would fail first), validateProperty fails exactly
\* when some element violates the items rule; the error is that of the
\* lowest-index violating element, its path the property path followed by
\* the zero-based index in brackets and, for a nested rule, by the property.
C16_LowestViolatingItem ==
  (/\ pc = "done"
   /\ ~callArgs.rule.null
   /\ IsArray(callArgs.value)
   /\ callArgs.rule.type = Some("array") /\ IsSome(callArgs.rule.items)
   /\ ~IsSome(callArgs.rule.const) /\ ~IsSome(callArgs.rule.enum)) =>
    LET items == callArgs.rule.items[1]
        elements == callArgs.value.v
        pathOf(i) == Append(callArgs.propertyPath, BracketedIndex(i))
        violating == {i \in 1..Len(elements) :
                        ~ElementVerdict(elements[i], items, pathOf(i)).valid}
    IN /\ result.valid <=> violating = {}
       /\ violating # {} =>
            LET first == CHOOSE i \in violating : \A j \in violating : i <= j IN
            /\ result = ElementVerdict(elements[first], items, pathOf(first))
            /\ SubSeq(result.error.path, 1, Len(pathOf(first))) = pathOf(first)
            /\ (Len(result.error.path) > Len(pathOf(first))) =>
                 /\ elements[first].t = "object"
                 /\ result.error.path = pathOf(first) \o LabelPath

\* C16 witness: the first element passes, the second is an object whose
\* label violates the nested rule; the path is ctas[1].label.
C16_Witness ==
  /\ pc = "done"
  /\ callArgs.rule.type = Some("array") /\ IsSome(callArgs.rule.items)
  /\ ~IsSome(callArgs.rule.const) /\ ~IsSome(callArgs.rule.enum)
  /\ IsArray(callArgs.value) /\ Len(callArgs.value.v) = 2
  /\ callArgs.value.v[1] = Obj([label |-> Str("a")])
  /\ ~result.valid
  /\ result.error.path = <<"ctas", "[1]", "label">>

(***************************************************************************)
(* Properties of validateRequiredProperties                                *)
(***************************************************************************)

\* the keys set on a value: those of an object, none on anything else
KeysSetOn(current) == IF current.t = "object" THEN DOMAIN current.v ELSE {}

\* each key of the path is set on the object reached so far
RECURSIVE PathIsSet(_, _)
PathIsSet(current, keys) ==
  \/ keys = <<>>
  \/ /\ Head(keys) \in KeysSetOn(current)
     /\ PathIsSet(current.v[Head(keys)], Tail(keys))

\* C17: validateRequiredProperties checks that keys exist, not what they
\* hold: a path is satisfied exactly when each of its keys is set on the
\* object reached so far (a terminal null or undefined counts, a null or
\* non-object on the way does not); the result is valid when every path is
\* satisfied and else names the first unsatisfied path of the list.
C17_ExistenceNotValue ==
  pc = "done" =>
    LET required == callArgs.required
        missing == {i \in 1..Len(required) : ~PathIsSet(callArgs.obj, required[i].keys)}
    IN /\ ~result.threw
       /\ result.valid <=> missing = {}
       /\ missing # {} =>
            LET first == CHOOSE i \in missing : \A j \in missing : i <= j IN
            /\ result.error.path = required[first].keys
            /\ result.error.kind = "required"

\* C17 witness: title is set to null and image is null; title counts as
\* present, image.src passes through null and is the path reported.
C17_Witness ==
  /\ pc = "done"
  /\ callArgs.obj = Obj([title |-> Null, image |-> Null])
  /\ callArgs.required = <<PathEntry(<<"title">>), PathEntry(<<"image", "src">>)>>
  /\ ~result.valid
  /\ result.error.path = <<"image", "src">>

(***************************************************************************)
(* Properties of the plugin run                                            *)
(***************************************************************************)

\* the files the run was given (the bundled assets go under two other keys)
PageFiles == SelectSeq(files, LAMBDA f : f.name \in Range(FileOrder))

\* the names templates, frontmatter and layouts use, and their closure under
\* the requirement lists of the table
UsedNames == Range(DetectUsedComponents(PageFiles, ComponentDirs, layouts))
NeededNames == LeastClosedSet(UsedNames, componentMap)

\* the components of a list whose name is in S, in the order of the list
Restricted(components, S) == SelectSeq(components, LAMBDA c : c.name \in S)

TableBuilt ==
  /\ Len(AllComponents) > 0
  /\ \A i, j \in 1..Len(AllComponents) :
       AllComponents[i].name = AllComponents[j].name => i = j

\* the components that list a name no discovered component bears
WithMissingRequirement ==
  {i \in 1..Len(AllComponents) :
     \E r \in Range(Requirements(AllComponents[i])) :
       \A j \in 1..Len(AllComponents) : AllComponents[j].name # r}

\* C3: when some component of the table, needed or not, lists a requirement
\* without entry in the table, the run ends with an error and the bundler is
\* never called, whatever validation.enabled and validation.strict are.
C3_MissingRequirementFatal ==
  (ppc # "start" /\ TableBuilt /\ WithMissingRequirement # {}) =>
    /\ bundlerCalls = <<>>
    /\ IsSome(runError)
    /\ ppc = "done" => doneCalls = <<runError>>

\* C3 witness: validation is off, the one component with a missing
\* requirement is outside the needed set, and done got the requirement error.
C3_Witness ==
  /\ ppc = "done"
  /\ ~options.validation.enabled
  /\ TableBuilt
  /\ WithMissingRequirement # {}
  /\ \A i \in WithMissingRequirement : AllComponents[i].name \notin NeededNames
  /\ NeededNames # {}
  /\ doneCalls = <<Some(RequirementValidationError)>>

\* the entry at position i of the file's sections fails validation against
\* the manifest of its type
SectionFailsAt(file, i) ==
  LET entry == file.sections.v[i]
      sectionType == GetKey(entry, "sectionType")
  IN /\ entry.t \in {"object", "array"}
     /\ Truthy(sectionType)
     /\ sectionType.t = "string" /\ MapHas(componentMap, sectionType.v)
     /\ IsSome(MapGet(componentMap, sectionType.v).validation)
     /\ LET verdict == ValidateSection(entry, MapGet(componentMap, sectionType.v).validation,
                                       SectionContext(i - 1, sectionType, file.name))
        IN ~verdict.threw /\ ~verdict.valid

\* the files whose name ends .html, .htm, .md or .markdown and whose
\* frontmatter holds a sections array
ContentFilesWithSections ==
  SelectSeq(PageFiles,
            LAMBDA f : /\ \E suffix \in {".html", ".htm", ".md", ".markdown"} :
                            EndsWith(f.name, suffix)
                       /\ IsArray(f.sections))

SomeSectionFails ==
  \E k \in 1..Len(ContentFilesWithSections) :
    \E i \in 1..Len(ContentFilesWithSections[k].sections.v) :
      SectionFailsAt(ContentFilesWithSections[k], i)

\* C6: in a run whose table builds and misses no requirement, the run is
\* rejected with 'Section validation failed' exactly when validation is
\* enabled and strict and a section of some content file fails; in every
\* other case the bundler is called.  With validation enabled the sections of
\* every content file have been validated by then.
C6_StrictFailureIff ==
  (ppc # "start" /\ TableBuilt /\ WithMissingRequirement = {}) =>
    LET stops == /\ options.validation.enabled /\ options.validation.strict
                 /\ SomeSectionFails
    IN /\ stops <=> (runError = Some(SectionValidationError))
       /\ stops => bundlerCalls = <<>>
       /\ ~stops => Len(bundlerCalls) = 1
       /\ options.validation.enabled =>
            validatedFiles = [k \in 1..Len(ContentFilesWithSections) |->
                                ContentFilesWithSections[k].name]
       /\ ~options.validation.enabled => validatedFiles = <<>>

\* C6 witness: strict validation, a first content file whose section passes
\* and a Markdown file whose hero section lacks its title; both files were
\* validated and the run was rejected.
C6_Witness ==
  /\ ppc = "rejected"
  /\ TableBuilt /\ WithMissingRequirement = {}
  /\ options.validation.enabled /\ options.validation.strict
  /\ Len(ContentFilesWithSections) = 2
  /\ ~(\E i \in 1..Len(ContentFilesWithSections[1].sections.v) :
         SectionFailsAt(ContentFilesWithSections[1], i))
  /\ ContentFilesWithSections[2].name = "about.md"
  /\ SectionFailsAt(ContentFilesWithSections[2], 1)
  /\ validatedFiles = <<ContentFilesWithSections[1].name, "about.md">>
  /\ runError = Some(SectionValidationError)

(***************************************************************************)
(* Properties of validateSections                                          *)
(***************************************************************************)

\* the entries of the argument, when it is an array
Entries == IF IsArray(sectionsArg) THEN sectionsArg.v ELSE <<>>

\* records of the returned list that carry the zero-based index k
RecordsAt(k) ==
  {j \in 1..Len(result.value) : result.value[j].sectionIndex = k}

\* the entry is an object that names a section type
IsTyped(entry) ==
  /\ entry.t \in {"object", "array"}
  /\ Truthy(GetKey(entry, "sectionType"))

\* looking up the manifest of the entry's type raises
LookupRaises(entry) ==
  IsTyped(entry) /\ CallAccessor(getManifestArg, GetKey(entry, "sectionType")).threw

\* the manifest found for the entry, as an option
ManifestOf(entry) == CallAccessor(getManifestArg, GetKey(entry, "sectionType")).value

HasValidationConfig(entry) ==
  /\ IsTyped(entry) /\ ~LookupRaises(entry)
  /\ IsSome(ManifestOf(entry)) /\ IsSome(ManifestOf(entry)[1].validation)

\* the verdict of validateSection on the entry, taken alone
VerdictAlone(entry, k) ==
  ValidateSection(entry, ManifestOf(entry)[1].validation,
                  SectionContext(k, GetKey(entry, "sectionType"), fileNameArg))

\* C7: a section whose type makes the accessor raise adds no record and does
\* not end the loop: the call returns, and every other typed section with a
\* validation config has a record exactly when it fails validation.
C7_UnknownTypeSkipped ==
  pc = "done" =>
    /\ ~result.threw
    /\ \A i \in 1..Len(Entries) :
         IF LookupRaises(Entries[i]) THEN RecordsAt(i - 1) = {}
         ELSE HasValidationConfig(Entries[i]) =>
                LET verdict == VerdictAlone(Entries[i], i - 1) IN
                (~verdict.threw /\ ~verdict.valid)
                  <=> \E j \in RecordsAt(i - 1) :
                        /\ result.value[j].message = verdict.error
                        /\ result.value[j].value = Entries[i]

\* C7 witness: the first section has an unknown type, the accessor raised for
\* it, and the failure of the second section is recorded all the same.
C7_Witness ==
  /\ pc = "done"
  /\ Len(Entries) = 2
  /\ getManifestArg.throws
  /\ LookupRaises(Entries[1])
  /\ HasValidationConfig(Entries[2])
  /\ Len(result.value) = 1
  /\ result.value[1].sectionIndex = 1

\* C8: validateSections never raises and returns a list; a non-array
\* argument gives the empty list; null and non-object entries, entries without
\* a truthy sectionType, entries whose component has no validation config and
\* entries whose lookup or rules raise add no record.
C8_NeverRaises ==
  pc = "done" =>
    /\ ~result.threw
    /\ ~IsArray(sectionsArg) => result.value = <<>>
    /\ \A j \in 1..Len(result.value) :
         result.value[j].sectionIndex \in 0..(Len(Entries) - 1)
    /\ \A i \in 1..Len(Entries) :
         (\/ ~IsTyped(Entries[i])
          \/ LookupRaises(Entries[i])
          \/ ~HasValidationConfig(Entries[i])
          \/ VerdictAlone(Entries[i], i - 1).threw)
         => RecordsAt(i - 1) = {}

\* C8 witness: a null entry and an entry whose rules raise while they are
\* applied; the call returned the empty list.
C8_Witness ==
  /\ pc = "done"
  /\ Len(Entries) = 2
  /\ Entries[1] = Null
  /\ HasValidationConfig(Entries[2])
  /\ VerdictAlone(Entries[2], 1).threw
  /\ ~result.threw
  /\ result.value = <<>>

(***************************************************************************)
(* Properties of validateSections: one record per failing section          *)
(***************************************************************************)
\* the first path of the required list that is not set on the section, and
\* the first rule of the properties list that the section violates (0: none)
FirstMissing(section, required) ==
  LET missing == {i \in 1..Len(required) : ~PathIsSet(section, required[i].keys)}
  IN IF missing = {} THEN 0 ELSE CHOOSE i \in missing : \A j \in missing : i <= j

FirstViolated(section, properties) ==
  LET violated == {i \in 1..Len(properties) :
                     ~ValidateProperty(GetNestedProperty(section, properties[i][1]),
                                       properties[i][2], properties[i][1]).valid}
  IN IF violated = {} THEN 0 ELSE CHOOSE i \in violated : \A j \in violated : i <= j

\* the error a record for this section has to carry
FirstFailure(section, config) ==
  LET required == IF IsSome(config.required) THEN config.required[1] ELSE <<>>
      properties == IF IsSome(config.properties) THEN config.properties[1] ELSE <<>>
      m == FirstMissing(section, required)
      v == FirstViolated(section, properties)
  IN IF m # 0 THEN [kind |-> "required", path |-> required[m].keys]
     ELSE IF v # 0
     THEN [kind |-> ValidateProperty(GetNestedProperty(section, properties[v][1]),
                                     properties[v][2], properties[v][1]).error.kind,
           path |-> properties[v][1]]
     ELSE [kind |-> "none", path |-> <<>>]

SectionTypesOf(file) ==
  IF file.sections.t = "array"
  THEN {GetKey(file.sections.v[i], "sectionType").v :
          i \in {j \in 1..Len(file.sections.v) : IsTyped(file.sections.v[j])}}
  ELSE {}

\* C19: every file of the page file map that carries a sections array
\* contributes the sectionType of each typed object element to the used set,
\* whatever the file's name or extension.
C19_EveryFileContributes ==
  \A i \in 1..Len(PageFiles) : SectionTypesOf(PageFiles[i]) \subseteq UsedNames

\* C19 case: a page whose name ends in neither .njk nor .html names a
\* section type in its frontmatter
C19_Witness ==
  \E i \in 1..Len(PageFiles) :
    /\ ~EndsWith(PageFiles[i].name, ".njk") /\ ~EndsWith(PageFiles[i].name, ".html")
    /\ SectionTypesOf(PageFiles[i]) # {}

(***************************************************************************)
(* Properties of extractComponentName                                      *)
(***************************************************************************)
\* the positions of a path whose segment is a marker name and has a successor
MarkersWithSuccessor(importPath, componentDirs) ==
  {i \in 1..(Len(importPath) - 1) :
     \E k \in 1..Len(componentDirs) : importPath[i] = componentDirs[k]}

\* C20: extractComponentName returns the segment that immediately follows the
\* first segment equal to a marker name and having a successor, and nothing
\* when there is no such segment; a template tag whose path has no marker
\* segment adds no name.
C20_SegmentAfterFirstMarker ==
  pc = "done" =>
    LET importPath == callArgs.importPath
        markers == MarkersWithSuccessor(importPath, callArgs.componentDirs)
    IN /\ markers = {} => result.name = None
       /\ markers # {} =>
            \E i \in markers :
              /\ \A j \in markers : i <= j
              /\ result.name = Some(importPath[i + 1])
       /\ (\A i \in 1..Len(importPath) :
             \A k \in 1..Len(callArgs.componentDirs) :
               importPath[i] # callArgs.componentDirs[k])
            => result.imported = <<>>

\* C20 witness: two markers in a row; the name is the second marker, the
\* segment after the first one
C20_Witness ==
  /\ pc = "done"
  /\ callArgs.importPath = <<"sections", "_partials", "button">>
  /\ callArgs.componentDirs = <<"_partials", "sections">>
  /\ result.name = Some("_partials")
  /\ result.imported = <<"_partials">>

(***************************************************************************)
(* Properties of collectComponents                                         *)
(***************************************************************************)
\* a subdirectory whose manifest is synthesized, or loads with a name
LoadsWithName(entry) ==
  /\ entry.isDirectory
  /\ \/ ~entry.manifest.exists
     \/ /\ entry.manifest.parses
        /\ entry.manifest.value.t = "object"
        /\ "name" \in DOMAIN entry.manifest.value.v
        /\ entry.manifest.value.v["name"] \notin {Str(""), Null, Undefined}

\* the name such a subdirectory's component carries
NameLoaded(entry) ==
  IF entry.manifest.exists THEN entry.manifest.value.v["name"].v ELSE entry.item

RECURSIVE NamesExpected(_)
NamesExpected(items) ==
  IF items = <<>> THEN <<>>
  ELSE (IF LoadsWithName(Head(items)) THEN <<NameLoaded(Head(items))>> ELSE <<>>)
       \o NamesExpected(Tail(items))

\* C21: collectComponents returns, in directory-listing order, exactly one
\* component for each immediate subdirectory whose manifest loads with a name
\* or is synthesized; a subdirectory whose manifest fails to parse or lacks a
\* name is dropped without affecting the others, non-directory entries are
\* skipped, and a root directory that does not exist gives the empty
\* sequence without raising.
C21_OnePerLoadableSubdirectory ==
  pc = "done" =>
    /\ ~result.threw
    /\ LET expected == IF IsSome(callArgs.dirPath)
                       THEN NamesExpected(callArgs.dirPath[1]) ELSE <<>>
       IN /\ Len(result.value) = Len(expected)
          /\ \A i \in 1..Len(expected) : result.value[i].name = expected[i]

\* C21 case: a subdirectory whose manifest.json holds `null` stands before a
\* loadable one, and collectComponents has been called
C21_Witness ==
  /\ pc = "done"
  /\ IsSome(callArgs.dirPath)
  /\ \E i, j \in 1..Len(callArgs.dirPath[1]) :
       /\ i < j
       /\ callArgs.dirPath[1][i] = DirEntry("hero", TRUE, ParsedManifest(Null))
       /\ LoadsWithName(callArgs.dirPath[1][j])

\* without a manifest that parses to null, the claim's statement
C21_HoldsWithoutNullManifest ==
  (IsSome(callArgs.dirPath) =>
     \A i \in 1..Len(callArgs.dirPath[1]) :
       callArgs.dirPath[1][i].manifest # ParsedManifest(Null))
  => C21_OnePerLoadableSubdirectory

(***************************************************************************)
(* Properties of the plugin run: the scan of the content files             *)
(***************************************************************************)
\* the error records validateSections gives for a content file
RecordsOf(file) ==
  ValidateSections(file.sections, ThrowingAccessor(componentMap), file.name).value

\* C22: when validation.reportAllErrors is false, section validation stops
\* scanning at the first file that has validation errors: files that come
\* after it in the scan contribute no error records.
C22_StopsAtFirstFailingFile ==
  (/\ ppc # "start" /\ TableBuilt
   /\ options.validation.enabled /\ ~options.validation.reportAllErrors) =>
    \A j, k \in 1..Len(ContentFilesWithSections) :
      (j < k /\ RecordsOf(ContentFilesWithSections[j]) # <<>>) =>
        ~(/\ ContentFilesWithSections[k].name \in Range(validatedFiles)
          /\ RecordsOf(ContentFilesWithSections[k]) # <<>>)

\* C22 case: reportAllErrors is false and two content files have errors
C22_Witness ==
  /\ ppc # "start" /\ TableBuilt
  /\ options.validation.enabled /\ ~options.validation.reportAllErrors
  /\ \E j, k \in 1..Len(ContentFilesWithSections) :
       /\ j < k
       /\ RecordsOf(ContentFilesWithSections[j]) # <<>>
       /\ RecordsOf(ContentFilesWithSections[k]) # <<>>

(***************************************************************************)
(* Frame properties of the utility functions                               *)
(***************************************************************************)
\* C23: resolveAllDependencies, filterNeededComponents, validateRequirements
\* and validateSections leave their inputs unchanged: through any sequence of
\* calls the lookup table with each component's requirement list, the
\* caller's used set, the component list and the section objects keep their
\* values.
C23_InputsUnchanged ==
  [][/\ componentMap' = componentMap
     /\ usedComponents' = usedComponents
     /\ callArgs' = callArgs
     /\ sectionsArg' = sectionsArg
     /\ getManifestArg' = getManifestArg]_vars

\* C23 witness: resolveAllDependencies has returned more names than the
\* used set holds, so its loop has pushed and popped requirements
C23_Witness ==
  /\ pc = "done"
  /\ resolved # {}
  /\ Cardinality(resolved) > Len(usedComponents)
  /\ result = resolved
  /\ Len(componentMap) > 1

(***************************************************************************)
(* Properties of scanLayoutFiles                                           *)
(***************************************************************************)
\* the names the tags of the readable files of a tree name, for the files
\* whose name ends with one of the suffixes
NamesTagged(entries, suffixes) ==
  LET pages == AsPageFiles(entries)
  IN UNION {Range(ParseTemplateFile(pages[i].contents[1], ComponentDirs)) :
              i \in {j \in 1..Len(pages) :
                       /\ IsSome(pages[j].contents)
                       /\ \E s \in suffixes : EndsWith(pages[j].name, s)}}

\* C24: a file found by the recursive scan of the layout directory is
\* tag-scanned under the same extension filter as a page file: a layout file
\* is scanned exactly when a page file of the same name would be.
C24_SameExtensionFilter ==
  pc = "done" => Range(result.layout) = Range(result.page)

\* C24 as the code has it: a layout file is tag-scanned exactly when its
\* name ends in .njk, a page file exactly when its name ends in .njk or
\* .html.
C24_LayoutScansNjkOnly ==
  (pc = "done" /\ IsSome(callArgs.layoutDir)) =>
    /\ Range(result.layout) = NamesTagged(callArgs.layoutDir[1], {".njk"})
    /\ Range(result.page) = NamesTagged(callArgs.layoutDir[1], {".njk", ".html"})

\* C24 witness: the tree holds layout.njk with a button tag and, in a
\* subdirectory, index.html with an icon tag: button is found by both
\* scans, icon only by the page scan
C24_Witness ==
  /\ pc = "done"
  /\ IsSome(callArgs.layoutDir)
  /\ callArgs.layoutDir[1] =
       <<LayoutEntry("layout.njk", "file", Some(ButtonTemplate), <<>>),
         LayoutEntry("partials", "directory", None,
                     <<LayoutEntry("index.html", "file", Some(IconTemplate), <<>>)>>)>>
  /\ result.layout = <<"button">>
  /\ Range(result.page) = {"button", "icon"}

(***************************************************************************)
(* Properties of the plugin run: the two validators                        *)
(***************************************************************************)
\* the run is ended by the section validator
StrictStop ==
  /\ options.validation.enabled /\ options.validation.strict
  /\ SomeSectionFails

\* C25: the Requirement Validator and the Section Validator run
\* independently of each other: section-validation failures, in strict mode
\* too, do not keep missing-requirement errors from being computed and
\* reported.
C25_ValidatorsIndependent ==
  (ppc # "start" /\ TableBuilt /\ WithMissingRequirement # {}) =>
    runError = Some(RequirementValidationError)

\* C25 as the code has it: the Section Validator runs on every content file
\* whatever the requirements are, and the Requirement Validator reports
\* unless a strict section-validation failure ended the run before it.
C25_IndependentUnlessStrict ==
  (ppc # "start" /\ TableBuilt) =>
    /\ options.validation.enabled =>
         validatedFiles = [k \in 1..Len(ContentFilesWithSections) |->
                             ContentFilesWithSections[k].name]
    /\ (WithMissingRequirement # {} /\ ~StrictStop) =>
         runError = Some(RequirementValidationError)
    /\ (WithMissingRequirement # {} /\ StrictStop) =>
         runError = Some(SectionValidationError)

\* C25 witness: validation is on and not strict, a section fails, a
\* requirement is missing, and the run ended with the requirement error
C25_Witness ==
  /\ ppc = "done" /\ TableBuilt
  /\ options.validation.enabled /\ ~options.validation.strict
  /\ SomeSectionFails
  /\ WithMissingRequirement # {}
  /\ validatedFiles # <<>>
  /\ doneCalls = <<Some(RequirementValidationError)>>

(***************************************************************************)
(* Properties of resolveDependencyOrder                                    *)
(***************************************************************************)
\* a depends on b in the table
DependsOn(T, a, b) ==
  \E i \in 1..Len(T) : T[i].name = a /\ b \in Range(T[i].dependencies)

\* a chain of dependencies: each name depends on the next
IsChain(T, p) == \A i \in 1..(Len(p) - 1) : DependsOn(T, p[i], p[i + 1])

\* some name reaches itself along one dependency or more
HasCycle(T) ==
  \E p \in UNION {SeqsOfLen(MapKeys(T), k) : k \in 1..Len(T)} :
    IsChain(T, p) /\ DependsOn(T, p[Len(p)], p[1])

\* C26: for a table in which every declared dependency exists,
\* resolveDependencyOrder raises a circular-dependency error exactly when
\* the dependency graph has a cycle (a self-dependency included), the
\* message listing the traversal path that ends at the revisited component;
\* otherwise it returns every component name exactly once, each name after
\* all of its dependencies.
C26_CycleOrOrder ==
  pc = "done" =>
    LET T == callArgs.componentMap IN
    /\ result.threw <=> HasCycle(T)
    /\ result.threw =>
         LET path == result.error.path
             name == result.error.name
         IN /\ path # <<>>
            /\ MapHas(T, path[1])
            /\ IsChain(T, Append(path, name))
            /\ NoDuplicates(path)
            /\ name \in Range(path)
    /\ ~result.threw =>
         /\ Range(result.value) = MapKeys(T)
         /\ NoDuplicates(result.value)
         /\ \A i \in 1..Len(result.value) :
              \A j \in 1..Len(result.value) :
                DependsOn(T, result.value[i], result.value[j]) => j < i

\* C26 witness: hero leads into the cycle of button and icon; the path of
\* the message starts at hero and ends at button, met again
C26_Witness ==
  /\ pc = "done"
  /\ result.threw
  /\ Len(result.error.path) = 3
  /\ result.error.name = result.error.path[2]
  /\ result.error.name # result.error.path[1]

\* C26 case without a cycle: two components share a dependency and three
\* names are returned
C26_SharedDependencyOrdered ==
  /\ pc = "done"
  /\ ~result.threw
  /\ Len(result.value) = 3
  /\ \E a, b, c \in MapKeys(callArgs.componentMap) :
       /\ a # b
       /\ DependsOn(callArgs.componentMap, a, c)
       /\ DependsOn(callArgs.componentMap, b, c)

(***************************************************************************)
(* Properties of the plugin run: the completion callback                   *)
(***************************************************************************)
\* C27: each run of the plugin function invokes the completion callback
\* exactly once, with no argument when the run succeeded and with the error
\* when it failed, and never a second time, even if the callback's first
\* invocation raises.
C27_DoneExactlyOnce ==
  /\ Len(doneCalls) <= 1
  /\ ppc = "done" => doneCalls = <<runError>>

\* C27 case: the run succeeded, done() threw, and done was called again
\* with what it threw
C27_Witness ==
  /\ ppc = "done"
  /\ runError = None
  /\ doneCalls = <<None, Some(CallbackError)>>

\* when the callback's first invocation returns, it is the only one
C27_OnceUnlessDoneThrows ==
  /\ ppc \in {"start", "bundling", "rejected"} => doneCalls = <<>>
  /\ ppc = "thenRejected" => doneCalls = <<None>>
  /\ ppc = "done" => doneCalls \in {<<runError>>, <<None, Some(CallbackError)>>}

(***************************************************************************)
(* Properties of the plugin run: a run that ends with an error             *)
(***************************************************************************)
\* the errors processComponents throws by itself
IsOwnError(error) ==
  /\ IsSome(error)
  /\ \/ error[1] \in {NoComponentsError, SectionValidationError,
                      RequirementValidationError}
     \/ \E n \in Names : error[1] = DuplicateError(n)

\* C28: when a plugin run ends with an error (no component found, duplicate
\* component name, strict section-validation failure or missing
\* requirement), the bundler was not invoked in that run and the page file
\* map has exactly the entries it had at the start: no step of such a run
\* changes the file map or calls the bundler.
C28_ErrorLeavesFilesAlone ==
  [][IsOwnError(runError') => (files' = files /\ bundlerCalls' = <<>>)]_vars

\* C28 witness: a strict section-validation failure was handed to done; the
\* file map holds no bundle and the bundler was not called
C28_Witness ==
  /\ ppc = "done"
  /\ doneCalls = <<Some(SectionValidationError)>>
  /\ bundlerCalls = <<>>
  /\ files # <<>>
  /\ \A i \in 1..Len(files) : files[i].name \notin {options.cssDest, options.jsDest}

(***************************************************************************)
(* Properties of the requirement list                                      *)
(***************************************************************************)
\* the list the claim names: `requires` when present, else `dependencies`
\* when present, else empty
ListNamed(component) ==
  IF component.requires # None THEN component.requires[1]
  ELSE IF component.dependencies # None THEN component.dependencies[1]
  ELSE <<>>

\* the least set holding S and the listed names of its members in the table
RECURSIVE ClosureNamed(_, _)
ClosureNamed(S, T) ==
  LET next == S \cup UNION {Range(ListNamed(T[i])) :
                              i \in {j \in 1..Len(T) : T[j].name \in S}}
  IN IF next = S THEN S ELSE ClosureNamed(next, T)

\* the listed names without entry, per component
MissingListed(T) ==
  {<<T[i].name, r>> : i \in 1..Len(T), r \in Names} \cap
  {p \in MapKeys(T) \X Names :
     /\ ~MapHas(T, p[2])
     /\ \E i \in 1..Len(T) : T[i].name = p[1] /\ p[2] \in Range(ListNamed(T[i]))}

\* C29: the requirement list of a component, as read by both
\* resolveAllDependencies and validateRequirements, is its `requires` field
\* whenever that field is present, even if it is empty, and its
\* `dependencies` field only when `requires` is absent (the empty list when
\* both are absent); a component that carries both fields is resolved and
\* validated from `requires` alone.
C29_RequiresBeforeDependencies ==
  pc = "done" =>
    LET T == callArgs.componentMap IN
    /\ result.resolved = ClosureNamed(Range(callArgs.usedComponents), T)
    /\ Range(result.errors) = {RequirementError(p[1], p[2]) : p \in MissingListed(T)}
    /\ Len(result.errors) = Cardinality(MissingListed(T))

\* C29 witness: hero is used and carries an empty `requires` next to
\* `dependencies` naming a component that is not in the table: neither
\* reader looks at `dependencies`
C29_Witness ==
  /\ pc = "done"
  /\ callArgs.usedComponents = <<"hero">>
  /\ Len(callArgs.componentMap) = 1
  /\ callArgs.componentMap[1].name = "hero"
  /\ callArgs.componentMap[1].requires = Some(<<>>)
  /\ callArgs.componentMap[1].dependencies = Some(<<"button">>)
  /\ result.resolved = {"hero"}
  /\ result.errors = <<>>

\* the names a message of validateRequirements reports as not found
NamesReported(errors) ==
  {n \in Names : \E i \in 1..Len(errors) : \E c \in Names :
                   errors[i] = RequirementError(c, n)}

\* C30: for every used set U and lookup table T, each name that is in
\* resolveAllDependencies(U, T) but neither in U nor in T is named as the
\* missing requirement in at least one message of validateRequirements(T);
\* hence when validateRequirements(T) is empty, every needed name outside U
\* has an entry in T.
C30_DanglingNamesReported ==
  pc = "done" =>
    LET U == Range(callArgs.usedComponents)
        T == callArgs.componentMap
    IN /\ (result.resolved \ (U \cup MapKeys(T))) \subseteq NamesReported(result.errors)
       /\ result.errors = <<>> => \A n \in result.resolved \ U : MapHas(T, n)

\* C30 witness: hero is used, requires button, and button lists a name
\* without entry: the name is needed, and one message reports it
C30_Witness ==
  /\ pc = "done"
  /\ callArgs.usedComponents = <<"hero">>
  /\ MapKeys(callArgs.componentMap) = {"hero", "button"}
  /\ result.resolved = {"hero", "button", "icon"}
  /\ result.errors = <<RequirementError("button", "icon")>>

====
